---- MODULE Spec2Model ----
(***************************************************************************)
(* DDSTextureLoaderVk: a model of the DDS loading pipeline                 *)
(*   LoadDDSTextureFromMemoryEx / LoadDDSTextureFromFileEx                 *)
(*     -> LoadTextureDataFromMemory / LoadTextureDataFromFile              *)
(*     -> CreateTextureFromDDS -> FillInitData -> CreateTextureResource    *)
(* as built for a 64-bit target with VK_VERSION_1_1 and VK_NO_PROTOTYPES.  *)
(*                                                                         *)
(* One load is one behaviour: Init draws the arguments of the call and the *)
(* bytes of the file, each action is one stage of the call, and pc = "done"*)
(* is the state the caller observes after the call returned.               *)
(*                                                                         *)
(* 32-bit quantities that can exceed 2^31-1 are never held in one integer: *)
(* bit masks are pairs of 16-bit halves, and comparisons with UINT32_MAX   *)
(* are decided without forming the number.                                 *)
(***************************************************************************)
EXTENDS Integers, Sequences, FiniteSets, TLC

\* === bounds of the model (not program constants) =========================
\* largest number of array layers a supplied VkPhysicalDeviceLimits allows
SmallMaxLayers == 12
\* the dimension limits of the supplied VkPhysicalDeviceLimits
SmallMaxDim == 8
\* the largest mip count drawn for a header that is meant to load
MaxMips == 3
\* bytes of payload beyond what the walk needs, in the "extra" payloads
ExtraBytes == 3

\* === DDS file structure (src/DDSTextureLoaderVk.cpp:53-123) ==============
DDS_MAGIC == 542327876
DDS_FOURCC == 4
DDS_RGB == 64
DDS_LUMINANCE == 131072
DDS_BUMPDUDV == 524288
DDS_HEADER_FLAGS_VOLUME == 8388608
DDS_HEIGHT == 2
DDS_CUBEMAP_POSITIVEX == 1536
DDS_CUBEMAP_NEGATIVEX == 2560
DDS_CUBEMAP_POSITIVEY == 4608
DDS_CUBEMAP_NEGATIVEY == 8704
DDS_CUBEMAP_POSITIVEZ == 16896
DDS_CUBEMAP_NEGATIVEZ == 33280
DDS_CUBEMAP == 512
DDS_MISC_FLAGS2_ALPHA_MODE_MASK == 7
RESOURCE_MISC_TEXTURECUBE == 4
DDS_LOADER_FORCE_SRGB == 1
DDS_LOADER_MIP_RESERVE == 8
maxDirect3DMips == 15

\* sizeof(uint32_t), sizeof(DDS_PIXELFORMAT), sizeof(DDS_HEADER), sizeof(DDS_HEADER_DXT10)
\* under #pragma pack(1)
SizeofUint32 == 4
SizeofDDS_PIXELFORMAT == 8 * SizeofUint32
SizeofDDS_HEADER == (7 + 11 + 5) * SizeofUint32 + SizeofDDS_PIXELFORMAT
SizeofDDS_HEADER_DXT10 == 5 * SizeofUint32

\* bitwise operations on non-negative integers
RECURSIVE BitAnd(_, _)
BitAnd(a, b) ==
    IF a = 0 \/ b = 0 THEN 0
    ELSE (a % 2) * (b % 2) + 2 * BitAnd(a \div 2, b \div 2)

RECURSIVE BitOr(_, _)
BitOr(a, b) ==
    IF a = 0 THEN b
    ELSE IF b = 0 THEN a
    ELSE (IF (a % 2) + (b % 2) > 0 THEN 1 ELSE 0) + 2 * BitOr(a \div 2, b \div 2)

DDS_CUBEMAP_ALLFACES ==
    BitOr(DDS_CUBEMAP_POSITIVEX, BitOr(DDS_CUBEMAP_NEGATIVEX,
    BitOr(DDS_CUBEMAP_POSITIVEY, BitOr(DDS_CUBEMAP_NEGATIVEY,
    BitOr(DDS_CUBEMAP_POSITIVEZ, DDS_CUBEMAP_NEGATIVEZ)))))

\* MAKEFOURCC applied to the character codes
MAKEFOURCC(ch0, ch1, ch2, ch3) == ch0 + ch1 * 256 + ch2 * 65536 + ch3 * 16777216

\* ASCII codes of the characters the FourCC tags are spelled with
Chr(c) ==
    CASE c = "0" -> 48 [] c = "1" -> 49 [] c = "2" -> 50 [] c = "3" -> 51
      [] c = "4" -> 52 [] c = "5" -> 53 [] c = "A" -> 65 [] c = "B" -> 66
      [] c = "C" -> 67 [] c = "D" -> 68 [] c = "G" -> 71 [] c = "I" -> 73
      [] c = "R" -> 82 [] c = "S" -> 83 [] c = "T" -> 84 [] c = "U" -> 85
      [] c = "V" -> 86 [] c = "X" -> 88 [] c = "Y" -> 89

FourCC(a, b, c, d) == MAKEFOURCC(Chr(a), Chr(b), Chr(c), Chr(d))

\* a 32-bit mask as its two 16-bit halves <<high, low>>
Mask(hi, lo) == <<hi, lo>>

\* n > UINT32_MAX, for an n the model can hold
ExceedsUint32(n) == (n \div 65536) >= 65536

\* a * b > UINT32_MAX, decided without forming the product (a, b >= 0)
ProductExceedsUint32(a, b) ==
    IF a = 0 \/ b = 0 THEN FALSE
    ELSE LET q == 2147483647 \div a
             r == 2147483647 % a
         IN  \* 2^32 = 2 * 2147483647 + 2 = (2q) * a + 2r + 2
             IF b - q <= q THEN FALSE
             ELSE (b - q) - q >= ((2 * r + 2) + (a - 1)) \div a

\* uint32_t arraySize *= 6 (src/DDSTextureLoaderVk.cpp:2910): the product modulo 2^32
MulSixUint32(a) ==
    IF a < 715827883 THEN 6 * a
    ELSE IF a < 1431655766 THEN 6 * (a - 715827883) + 2
    ELSE 6 * (a - 1431655766) + 4

\* DDS_LOADER_RESULT (src/DDSTextureLoaderVk.h:79-94)
DDS_LOADER_RESULT ==
    {"DDS_LOADER_SUCCESS", "DDS_LOADER_FAIL", "DDS_LOADER_BAD_POINTER", "DDS_LOADER_INVALID_ARG",
     "DDS_LOADER_INVALID_DATA", "DDS_LOADER_UNEXPECTED_EOF", "DDS_LOADER_UNSUPPORTED_FORMAT",
     "DDS_LOADER_UNSUPPORTED_LAYOUT", "DDS_LOADER_BELOW_LIMITS", "DDS_LOADER_NO_HOST_MEMORY",
     "DDS_LOADER_NO_DEVICE_MEMORY", "DDS_LOADER_NO_FUNCTION", "DDS_LOADER_ARITHMETIC_OVERFLOW"}

CountMips(width, height) ==
    LET RECURSIVE Loop(_, _, _)
        Loop(w, h, count) ==
            IF w > 1 \/ h > 1 THEN Loop(w \div 2, h \div 2, count + 1) ELSE count
    IN  IF width = 0 \/ height = 0 THEN 0 ELSE Loop(width, height, 1)

IsTypelessFormat(dxgiFormat) ==
    dxgiFormat \in {1, 5, 9, 15, 19, 21, 23, 27, 33, 39, 44, 46, 47, 48, 53, 60,
                    70, 73, 76, 79, 82, 90, 92, 94, 97}

D3DResourceDimensionToImageType(resDim) ==
    CASE resDim = 2 -> "VK_IMAGE_TYPE_1D"
      [] resDim = 3 -> "VK_IMAGE_TYPE_2D"
      [] resDim = 4 -> "VK_IMAGE_TYPE_3D"
      [] OTHER -> "VK_IMAGE_TYPE_MAX_ENUM"

\* === Format Mapper tables ===============================================
\* A VkFormat is modelled by the name of its enumerator.

DXGIToVkFormat(dxgi_format) ==
    CASE dxgi_format = 0 -> "VK_FORMAT_UNDEFINED"
      [] dxgi_format = 1 -> "VK_FORMAT_R32G32B32A32_UINT"
      [] dxgi_format = 2 -> "VK_FORMAT_R32G32B32A32_SFLOAT"
      [] dxgi_format = 3 -> "VK_FORMAT_R32G32B32A32_UINT"
      [] dxgi_format = 4 -> "VK_FORMAT_R32G32B32A32_SINT"
      [] dxgi_format = 5 -> "VK_FORMAT_R32G32B32_UINT"
      [] dxgi_format = 6 -> "VK_FORMAT_R32G32B32_SFLOAT"
      [] dxgi_format = 7 -> "VK_FORMAT_R32G32B32_UINT"
      [] dxgi_format = 8 -> "VK_FORMAT_R32G32B32_SINT"
      [] dxgi_format = 9 -> "VK_FORMAT_R16G16B16A16_UINT"
      [] dxgi_format = 10 -> "VK_FORMAT_R16G16B16A16_SFLOAT"
      [] dxgi_format = 11 -> "VK_FORMAT_R16G16B16A16_UNORM"
      [] dxgi_format = 12 -> "VK_FORMAT_R16G16B16A16_UINT"
      [] dxgi_format = 13 -> "VK_FORMAT_R16G16B16A16_SNORM"
      [] dxgi_format = 14 -> "VK_FORMAT_R16G16B16A16_SINT"
      [] dxgi_format = 15 -> "VK_FORMAT_R32G32_UINT"
      [] dxgi_format = 16 -> "VK_FORMAT_R32G32_SFLOAT"
      [] dxgi_format = 17 -> "VK_FORMAT_R32G32_UINT"
      [] dxgi_format = 18 -> "VK_FORMAT_R32G32_SINT"
      [] dxgi_format = 19 -> "VK_FORMAT_UNDEFINED"
      [] dxgi_format = 20 -> "VK_FORMAT_UNDEFINED"
      [] dxgi_format = 21 -> "VK_FORMAT_UNDEFINED"
      [] dxgi_format = 22 -> "VK_FORMAT_UNDEFINED"
      [] dxgi_format = 23 -> "VK_FORMAT_A2B10G10R10_UINT_PACK32"
      [] dxgi_format = 24 -> "VK_FORMAT_A2B10G10R10_UNORM_PACK32"
      [] dxgi_format = 25 -> "VK_FORMAT_A2B10G10R10_UINT_PACK32"
      [] dxgi_format = 26 -> "VK_FORMAT_B10G11R11_UFLOAT_PACK32"
      [] dxgi_format = 27 -> "VK_FORMAT_R8G8B8A8_UINT"
      [] dxgi_format = 28 -> "VK_FORMAT_R8G8B8A8_UNORM"
      [] dxgi_format = 29 -> "VK_FORMAT_R8G8B8A8_SRGB"
      [] dxgi_format = 30 -> "VK_FORMAT_R8G8B8A8_UINT"
      [] dxgi_format = 31 -> "VK_FORMAT_R8G8B8A8_SNORM"
      [] dxgi_format = 32 -> "VK_FORMAT_R8G8B8A8_SINT"
      [] dxgi_format = 33 -> "VK_FORMAT_R16G16_UINT"
      [] dxgi_format = 34 -> "VK_FORMAT_R16G16_SFLOAT"
      [] dxgi_format = 35 -> "VK_FORMAT_R16G16_UNORM"
      [] dxgi_format = 36 -> "VK_FORMAT_R16G16_UINT"
      [] dxgi_format = 37 -> "VK_FORMAT_R16G16_SNORM"
      [] dxgi_format = 38 -> "VK_FORMAT_R16G16_SINT"
      [] dxgi_format = 39 -> "VK_FORMAT_R32_UINT"
      [] dxgi_format = 40 -> "VK_FORMAT_D32_SFLOAT"
      [] dxgi_format = 41 -> "VK_FORMAT_R32_SFLOAT"
      [] dxgi_format = 42 -> "VK_FORMAT_R32_UINT"
      [] dxgi_format = 43 -> "VK_FORMAT_R32_SINT"
      [] dxgi_format = 44 -> "VK_FORMAT_D24_UNORM_S8_UINT"
      [] dxgi_format = 45 -> "VK_FORMAT_D24_UNORM_S8_UINT"
      [] dxgi_format = 46 -> "VK_FORMAT_UNDEFINED"
      [] dxgi_format = 47 -> "VK_FORMAT_UNDEFINED"
      [] dxgi_format = 48 -> "VK_FORMAT_R8G8_UINT"
      [] dxgi_format = 49 -> "VK_FORMAT_R8G8_UNORM"
      [] dxgi_format = 50 -> "VK_FORMAT_R8G8_UINT"
      [] dxgi_format = 51 -> "VK_FORMAT_R8G8_SNORM"
      [] dxgi_format = 52 -> "VK_FORMAT_R8G8_SINT"
      [] dxgi_format = 53 -> "VK_FORMAT_R16_UINT"
      [] dxgi_format = 54 -> "VK_FORMAT_R16_SFLOAT"
      [] dxgi_format = 55 -> "VK_FORMAT_D16_UNORM"
      [] dxgi_format = 56 -> "VK_FORMAT_R16_UNORM"
      [] dxgi_format = 57 -> "VK_FORMAT_R16_UINT"
      [] dxgi_format = 58 -> "VK_FORMAT_R16_SNORM"
      [] dxgi_format = 59 -> "VK_FORMAT_R16_SINT"
      [] dxgi_format = 60 -> "VK_FORMAT_R8_UINT"
      [] dxgi_format = 61 -> "VK_FORMAT_R8_UNORM"
      [] dxgi_format = 62 -> "VK_FORMAT_R8_UINT"
      [] dxgi_format = 63 -> "VK_FORMAT_R8_SNORM"
      [] dxgi_format = 64 -> "VK_FORMAT_R8_SINT"
      [] dxgi_format = 65 -> "VK_FORMAT_UNDEFINED"
      [] dxgi_format = 66 -> "VK_FORMAT_UNDEFINED"
      [] dxgi_format = 67 -> "VK_FORMAT_E5B9G9R9_UFLOAT_PACK32"
      [] dxgi_format = 68 -> "VK_FORMAT_G8B8G8R8_422_UNORM"
      [] dxgi_format = 69 -> "VK_FORMAT_B8G8R8G8_422_UNORM"
      [] dxgi_format = 70 -> "VK_FORMAT_BC1_RGBA_UNORM_BLOCK"
      [] dxgi_format = 71 -> "VK_FORMAT_BC1_RGBA_UNORM_BLOCK"
      [] dxgi_format = 72 -> "VK_FORMAT_BC1_RGBA_SRGB_BLOCK"
      [] dxgi_format = 73 -> "VK_FORMAT_BC2_UNORM_BLOCK"
      [] dxgi_format = 74 -> "VK_FORMAT_BC2_UNORM_BLOCK"
      [] dxgi_format = 75 -> "VK_FORMAT_BC2_SRGB_BLOCK"
      [] dxgi_format = 76 -> "VK_FORMAT_BC3_UNORM_BLOCK"
      [] dxgi_format = 77 -> "VK_FORMAT_BC3_UNORM_BLOCK"
      [] dxgi_format = 78 -> "VK_FORMAT_BC3_SRGB_BLOCK"
      [] dxgi_format = 79 -> "VK_FORMAT_BC4_UNORM_BLOCK"
      [] dxgi_format = 80 -> "VK_FORMAT_BC4_UNORM_BLOCK"
      [] dxgi_format = 81 -> "VK_FORMAT_BC4_SNORM_BLOCK"
      [] dxgi_format = 82 -> "VK_FORMAT_BC5_UNORM_BLOCK"
      [] dxgi_format = 83 -> "VK_FORMAT_BC5_UNORM_BLOCK"
      [] dxgi_format = 84 -> "VK_FORMAT_BC5_SNORM_BLOCK"
      [] dxgi_format = 85 -> "VK_FORMAT_R5G6B5_UNORM_PACK16"
      [] dxgi_format = 86 -> "VK_FORMAT_A1R5G5B5_UNORM_PACK16"
      [] dxgi_format = 87 -> "VK_FORMAT_B8G8R8A8_UNORM"
      [] dxgi_format = 88 -> "VK_FORMAT_UNDEFINED"
      [] dxgi_format = 89 -> "VK_FORMAT_UNDEFINED"
      [] dxgi_format = 90 -> "VK_FORMAT_B8G8R8A8_UNORM"
      [] dxgi_format = 91 -> "VK_FORMAT_B8G8R8A8_SRGB"
      [] dxgi_format = 92 -> "VK_FORMAT_UNDEFINED"
      [] dxgi_format = 93 -> "VK_FORMAT_UNDEFINED"
      [] dxgi_format = 94 -> "VK_FORMAT_BC6H_UFLOAT_BLOCK"
      [] dxgi_format = 95 -> "VK_FORMAT_BC6H_UFLOAT_BLOCK"
      [] dxgi_format = 96 -> "VK_FORMAT_BC6H_SFLOAT_BLOCK"
      [] dxgi_format = 97 -> "VK_FORMAT_BC7_UNORM_BLOCK"
      [] dxgi_format = 98 -> "VK_FORMAT_BC7_UNORM_BLOCK"
      [] dxgi_format = 99 -> "VK_FORMAT_BC7_SRGB_BLOCK"
      [] dxgi_format = 100 -> "VK_FORMAT_R8G8B8A8_UNORM"
      [] dxgi_format = 101 -> "VK_FORMAT_A2B10G10R10_UNORM_PACK32"
      [] dxgi_format = 102 -> "VK_FORMAT_R16G16B16A16_UNORM"
      [] dxgi_format = 103 -> "VK_FORMAT_G8_B8R8_2PLANE_420_UNORM"
      [] dxgi_format = 104 -> "VK_FORMAT_G10X6_B10X6R10X6_2PLANE_420_UNORM_3PACK16"
      [] dxgi_format = 105 -> "VK_FORMAT_G16_B16R16_2PLANE_420_UNORM"
      [] dxgi_format = 106 -> "VK_FORMAT_G8_B8R8_2PLANE_420_UNORM"
      [] dxgi_format = 107 -> "VK_FORMAT_G8B8G8R8_422_UNORM"
      [] dxgi_format = 108 -> "VK_FORMAT_G10X6B10X6G10X6R10X6_422_UNORM_4PACK16"
      [] dxgi_format = 109 -> "VK_FORMAT_G16B16G16R16_422_UNORM"
      [] dxgi_format = 110 -> "VK_FORMAT_UNDEFINED"
      [] dxgi_format = 111 -> "VK_FORMAT_UNDEFINED"
      [] dxgi_format = 112 -> "VK_FORMAT_UNDEFINED"
      [] dxgi_format = 113 -> "VK_FORMAT_UNDEFINED"
      [] dxgi_format = 114 -> "VK_FORMAT_UNDEFINED"
      [] dxgi_format = 115 -> "VK_FORMAT_A4R4G4B4_UNORM_PACK16_EXT"
      [] dxgi_format = 130 -> "VK_FORMAT_G8_B8R8_2PLANE_422_UNORM"
      [] dxgi_format = 131 -> "VK_FORMAT_UNDEFINED"
      [] dxgi_format = 132 -> "VK_FORMAT_R8G8B8A8_UNORM"
      [] OTHER -> "VK_FORMAT_UNDEFINED"

\* the formats GetVkFormatPlaneCount maps to 1
PlaneCount1Formats ==
    {
      "VK_FORMAT_R4G4_UNORM_PACK8", "VK_FORMAT_R4G4B4A4_UNORM_PACK16", "VK_FORMAT_B4G4R4A4_UNORM_PACK16",
      "VK_FORMAT_R5G6B5_UNORM_PACK16", "VK_FORMAT_B5G6R5_UNORM_PACK16", "VK_FORMAT_R5G5B5A1_UNORM_PACK16",
      "VK_FORMAT_B5G5R5A1_UNORM_PACK16", "VK_FORMAT_A1R5G5B5_UNORM_PACK16", "VK_FORMAT_R8_UNORM",
      "VK_FORMAT_R8_SNORM", "VK_FORMAT_R8_USCALED", "VK_FORMAT_R8_SSCALED", "VK_FORMAT_R8_UINT",
      "VK_FORMAT_R8_SINT", "VK_FORMAT_R8_SRGB", "VK_FORMAT_R8G8_UNORM", "VK_FORMAT_R8G8_SNORM",
      "VK_FORMAT_R8G8_USCALED", "VK_FORMAT_R8G8_SSCALED", "VK_FORMAT_R8G8_UINT", "VK_FORMAT_R8G8_SINT",
      "VK_FORMAT_R8G8_SRGB", "VK_FORMAT_R8G8B8_UNORM", "VK_FORMAT_R8G8B8_SNORM",
      "VK_FORMAT_R8G8B8_USCALED", "VK_FORMAT_R8G8B8_SSCALED", "VK_FORMAT_R8G8B8_UINT",
      "VK_FORMAT_R8G8B8_SINT", "VK_FORMAT_R8G8B8_SRGB", "VK_FORMAT_B8G8R8_UNORM",
      "VK_FORMAT_B8G8R8_SNORM", "VK_FORMAT_B8G8R8_USCALED", "VK_FORMAT_B8G8R8_SSCALED",
      "VK_FORMAT_B8G8R8_UINT", "VK_FORMAT_B8G8R8_SINT", "VK_FORMAT_B8G8R8_SRGB",
      "VK_FORMAT_R8G8B8A8_UNORM", "VK_FORMAT_R8G8B8A8_SNORM", "VK_FORMAT_R8G8B8A8_USCALED",
      "VK_FORMAT_R8G8B8A8_SSCALED", "VK_FORMAT_R8G8B8A8_UINT", "VK_FORMAT_R8G8B8A8_SINT",
      "VK_FORMAT_R8G8B8A8_SRGB", "VK_FORMAT_B8G8R8A8_UNORM", "VK_FORMAT_B8G8R8A8_SNORM",
      "VK_FORMAT_B8G8R8A8_USCALED", "VK_FORMAT_B8G8R8A8_SSCALED", "VK_FORMAT_B8G8R8A8_UINT",
      "VK_FORMAT_B8G8R8A8_SINT", "VK_FORMAT_B8G8R8A8_SRGB", "VK_FORMAT_A8B8G8R8_UNORM_PACK32",
      "VK_FORMAT_A8B8G8R8_SNORM_PACK32", "VK_FORMAT_A8B8G8R8_USCALED_PACK32",
      "VK_FORMAT_A8B8G8R8_SSCALED_PACK32", "VK_FORMAT_A8B8G8R8_UINT_PACK32",
      "VK_FORMAT_A8B8G8R8_SINT_PACK32", "VK_FORMAT_A8B8G8R8_SRGB_PACK32",
      "VK_FORMAT_A2R10G10B10_UNORM_PACK32", "VK_FORMAT_A2R10G10B10_SNORM_PACK32",
      "VK_FORMAT_A2R10G10B10_USCALED_PACK32", "VK_FORMAT_A2R10G10B10_SSCALED_PACK32",
      "VK_FORMAT_A2R10G10B10_UINT_PACK32", "VK_FORMAT_A2R10G10B10_SINT_PACK32",
      "VK_FORMAT_A2B10G10R10_UNORM_PACK32", "VK_FORMAT_A2B10G10R10_SNORM_PACK32",
      "VK_FORMAT_A2B10G10R10_USCALED_PACK32", "VK_FORMAT_A2B10G10R10_SSCALED_PACK32",
      "VK_FORMAT_A2B10G10R10_UINT_PACK32", "VK_FORMAT_A2B10G10R10_SINT_PACK32", "VK_FORMAT_R16_UNORM",
      "VK_FORMAT_R16_SNORM", "VK_FORMAT_R16_USCALED", "VK_FORMAT_R16_SSCALED", "VK_FORMAT_R16_UINT",
      "VK_FORMAT_R16_SINT", "VK_FORMAT_R16_SFLOAT", "VK_FORMAT_R16G16_UNORM", "VK_FORMAT_R16G16_SNORM",
      "VK_FORMAT_R16G16_USCALED", "VK_FORMAT_R16G16_SSCALED", "VK_FORMAT_R16G16_UINT",
      "VK_FORMAT_R16G16_SINT", "VK_FORMAT_R16G16_SFLOAT", "VK_FORMAT_R16G16B16_UNORM",
      "VK_FORMAT_R16G16B16_SNORM", "VK_FORMAT_R16G16B16_USCALED", "VK_FORMAT_R16G16B16_SSCALED",
      "VK_FORMAT_R16G16B16_UINT", "VK_FORMAT_R16G16B16_SINT", "VK_FORMAT_R16G16B16_SFLOAT",
      "VK_FORMAT_R16G16B16A16_UNORM", "VK_FORMAT_R16G16B16A16_SNORM", "VK_FORMAT_R16G16B16A16_USCALED",
      "VK_FORMAT_R16G16B16A16_SSCALED", "VK_FORMAT_R16G16B16A16_UINT", "VK_FORMAT_R16G16B16A16_SINT",
      "VK_FORMAT_R16G16B16A16_SFLOAT", "VK_FORMAT_R32_UINT", "VK_FORMAT_R32_SINT", "VK_FORMAT_R32_SFLOAT",
      "VK_FORMAT_R32G32_UINT", "VK_FORMAT_R32G32_SINT", "VK_FORMAT_R32G32_SFLOAT",
      "VK_FORMAT_R32G32B32_UINT", "VK_FORMAT_R32G32B32_SINT", "VK_FORMAT_R32G32B32_SFLOAT",
      "VK_FORMAT_R32G32B32A32_UINT", "VK_FORMAT_R32G32B32A32_SINT", "VK_FORMAT_R32G32B32A32_SFLOAT",
      "VK_FORMAT_R64_UINT", "VK_FORMAT_R64_SINT", "VK_FORMAT_R64_SFLOAT", "VK_FORMAT_R64G64_UINT",
      "VK_FORMAT_R64G64_SINT", "VK_FORMAT_R64G64_SFLOAT", "VK_FORMAT_R64G64B64_UINT",
      "VK_FORMAT_R64G64B64_SINT", "VK_FORMAT_R64G64B64_SFLOAT", "VK_FORMAT_R64G64B64A64_UINT",
      "VK_FORMAT_R64G64B64A64_SINT", "VK_FORMAT_R64G64B64A64_SFLOAT", "VK_FORMAT_B10G11R11_UFLOAT_PACK32",
      "VK_FORMAT_E5B9G9R9_UFLOAT_PACK32", "VK_FORMAT_D16_UNORM", "VK_FORMAT_X8_D24_UNORM_PACK32",
      "VK_FORMAT_D32_SFLOAT", "VK_FORMAT_S8_UINT", "VK_FORMAT_D16_UNORM_S8_UINT",
      "VK_FORMAT_D24_UNORM_S8_UINT", "VK_FORMAT_D32_SFLOAT_S8_UINT", "VK_FORMAT_BC1_RGB_UNORM_BLOCK",
      "VK_FORMAT_BC1_RGB_SRGB_BLOCK", "VK_FORMAT_BC1_RGBA_UNORM_BLOCK", "VK_FORMAT_BC1_RGBA_SRGB_BLOCK",
      "VK_FORMAT_BC2_UNORM_BLOCK", "VK_FORMAT_BC2_SRGB_BLOCK", "VK_FORMAT_BC3_UNORM_BLOCK",
      "VK_FORMAT_BC3_SRGB_BLOCK", "VK_FORMAT_BC4_UNORM_BLOCK", "VK_FORMAT_BC4_SNORM_BLOCK",
      "VK_FORMAT_BC5_UNORM_BLOCK", "VK_FORMAT_BC5_SNORM_BLOCK", "VK_FORMAT_BC6H_UFLOAT_BLOCK",
      "VK_FORMAT_BC6H_SFLOAT_BLOCK", "VK_FORMAT_BC7_UNORM_BLOCK", "VK_FORMAT_BC7_SRGB_BLOCK",
      "VK_FORMAT_ETC2_R8G8B8_UNORM_BLOCK", "VK_FORMAT_ETC2_R8G8B8_SRGB_BLOCK",
      "VK_FORMAT_ETC2_R8G8B8A1_UNORM_BLOCK", "VK_FORMAT_ETC2_R8G8B8A1_SRGB_BLOCK",
      "VK_FORMAT_ETC2_R8G8B8A8_UNORM_BLOCK", "VK_FORMAT_ETC2_R8G8B8A8_SRGB_BLOCK",
      "VK_FORMAT_EAC_R11_UNORM_BLOCK", "VK_FORMAT_EAC_R11_SNORM_BLOCK",
      "VK_FORMAT_EAC_R11G11_UNORM_BLOCK", "VK_FORMAT_EAC_R11G11_SNORM_BLOCK",
      "VK_FORMAT_ASTC_4x4_UNORM_BLOCK", "VK_FORMAT_ASTC_4x4_SRGB_BLOCK", "VK_FORMAT_ASTC_5x4_UNORM_BLOCK",
      "VK_FORMAT_ASTC_5x4_SRGB_BLOCK", "VK_FORMAT_ASTC_5x5_UNORM_BLOCK", "VK_FORMAT_ASTC_5x5_SRGB_BLOCK",
      "VK_FORMAT_ASTC_6x5_UNORM_BLOCK", "VK_FORMAT_ASTC_6x5_SRGB_BLOCK", "VK_FORMAT_ASTC_6x6_UNORM_BLOCK",
      "VK_FORMAT_ASTC_6x6_SRGB_BLOCK", "VK_FORMAT_ASTC_8x5_UNORM_BLOCK", "VK_FORMAT_ASTC_8x5_SRGB_BLOCK",
      "VK_FORMAT_ASTC_8x6_UNORM_BLOCK", "VK_FORMAT_ASTC_8x6_SRGB_BLOCK", "VK_FORMAT_ASTC_8x8_UNORM_BLOCK",
      "VK_FORMAT_ASTC_8x8_SRGB_BLOCK", "VK_FORMAT_ASTC_10x5_UNORM_BLOCK",
      "VK_FORMAT_ASTC_10x5_SRGB_BLOCK", "VK_FORMAT_ASTC_10x6_UNORM_BLOCK",
      "VK_FORMAT_ASTC_10x6_SRGB_BLOCK", "VK_FORMAT_ASTC_10x8_UNORM_BLOCK",
      "VK_FORMAT_ASTC_10x8_SRGB_BLOCK", "VK_FORMAT_ASTC_10x10_UNORM_BLOCK",
      "VK_FORMAT_ASTC_10x10_SRGB_BLOCK", "VK_FORMAT_ASTC_12x10_UNORM_BLOCK",
      "VK_FORMAT_ASTC_12x10_SRGB_BLOCK", "VK_FORMAT_ASTC_12x12_UNORM_BLOCK",
      "VK_FORMAT_ASTC_12x12_SRGB_BLOCK", "VK_FORMAT_G8B8G8R8_422_UNORM", "VK_FORMAT_B8G8R8G8_422_UNORM",
      "VK_FORMAT_R10X6_UNORM_PACK16", "VK_FORMAT_R10X6G10X6_UNORM_2PACK16",
      "VK_FORMAT_R10X6G10X6B10X6A10X6_UNORM_4PACK16", "VK_FORMAT_G10X6B10X6G10X6R10X6_422_UNORM_4PACK16",
      "VK_FORMAT_B10X6G10X6R10X6G10X6_422_UNORM_4PACK16", "VK_FORMAT_R12X4_UNORM_PACK16",
      "VK_FORMAT_R12X4G12X4_UNORM_2PACK16", "VK_FORMAT_R12X4G12X4B12X4A12X4_UNORM_4PACK16",
      "VK_FORMAT_G12X4B12X4G12X4R12X4_422_UNORM_4PACK16",
      "VK_FORMAT_B12X4G12X4R12X4G12X4_422_UNORM_4PACK16", "VK_FORMAT_G16B16G16R16_422_UNORM",
      "VK_FORMAT_B16G16R16G16_422_UNORM", "VK_FORMAT_PVRTC1_2BPP_UNORM_BLOCK_IMG",
      "VK_FORMAT_PVRTC1_4BPP_UNORM_BLOCK_IMG", "VK_FORMAT_PVRTC2_2BPP_UNORM_BLOCK_IMG",
      "VK_FORMAT_PVRTC2_4BPP_UNORM_BLOCK_IMG", "VK_FORMAT_PVRTC1_2BPP_SRGB_BLOCK_IMG",
      "VK_FORMAT_PVRTC1_4BPP_SRGB_BLOCK_IMG", "VK_FORMAT_PVRTC2_2BPP_SRGB_BLOCK_IMG",
      "VK_FORMAT_PVRTC2_4BPP_SRGB_BLOCK_IMG", "VK_FORMAT_ASTC_4x4_SFLOAT_BLOCK_EXT",
      "VK_FORMAT_ASTC_5x4_SFLOAT_BLOCK_EXT", "VK_FORMAT_ASTC_5x5_SFLOAT_BLOCK_EXT",
      "VK_FORMAT_ASTC_6x5_SFLOAT_BLOCK_EXT", "VK_FORMAT_ASTC_6x6_SFLOAT_BLOCK_EXT",
      "VK_FORMAT_ASTC_8x5_SFLOAT_BLOCK_EXT", "VK_FORMAT_ASTC_8x6_SFLOAT_BLOCK_EXT",
      "VK_FORMAT_ASTC_8x8_SFLOAT_BLOCK_EXT", "VK_FORMAT_ASTC_10x5_SFLOAT_BLOCK_EXT",
      "VK_FORMAT_ASTC_10x6_SFLOAT_BLOCK_EXT", "VK_FORMAT_ASTC_10x8_SFLOAT_BLOCK_EXT",
      "VK_FORMAT_ASTC_10x10_SFLOAT_BLOCK_EXT", "VK_FORMAT_ASTC_12x10_SFLOAT_BLOCK_EXT",
      "VK_FORMAT_ASTC_12x12_SFLOAT_BLOCK_EXT", "VK_FORMAT_A4R4G4B4_UNORM_PACK16_EXT",
      "VK_FORMAT_A4B4G4R4_UNORM_PACK16_EXT"
    }

\* the formats GetVkFormatPlaneCount maps to 2
PlaneCount2Formats ==
    {
      "VK_FORMAT_G8_B8R8_2PLANE_420_UNORM", "VK_FORMAT_G8_B8R8_2PLANE_422_UNORM",
      "VK_FORMAT_G10X6_B10X6R10X6_2PLANE_420_UNORM_3PACK16",
      "VK_FORMAT_G10X6_B10X6R10X6_2PLANE_422_UNORM_3PACK16",
      "VK_FORMAT_G12X4_B12X4R12X4_2PLANE_420_UNORM_3PACK16",
      "VK_FORMAT_G12X4_B12X4R12X4_2PLANE_422_UNORM_3PACK16", "VK_FORMAT_G16_B16R16_2PLANE_420_UNORM",
      "VK_FORMAT_G16_B16R16_2PLANE_422_UNORM"
    }

\* the formats GetVkFormatPlaneCount maps to 3
PlaneCount3Formats ==
    {
      "VK_FORMAT_G8_B8_R8_3PLANE_420_UNORM", "VK_FORMAT_G8_B8_R8_3PLANE_422_UNORM",
      "VK_FORMAT_G8_B8_R8_3PLANE_444_UNORM", "VK_FORMAT_G10X6_B10X6_R10X6_3PLANE_420_UNORM_3PACK16",
      "VK_FORMAT_G10X6_B10X6_R10X6_3PLANE_422_UNORM_3PACK16",
      "VK_FORMAT_G10X6_B10X6_R10X6_3PLANE_444_UNORM_3PACK16",
      "VK_FORMAT_G12X4_B12X4_R12X4_3PLANE_420_UNORM_3PACK16",
      "VK_FORMAT_G12X4_B12X4_R12X4_3PLANE_422_UNORM_3PACK16",
      "VK_FORMAT_G12X4_B12X4_R12X4_3PLANE_444_UNORM_3PACK16", "VK_FORMAT_G16_B16_R16_3PLANE_420_UNORM",
      "VK_FORMAT_G16_B16_R16_3PLANE_422_UNORM", "VK_FORMAT_G16_B16_R16_3PLANE_444_UNORM"
    }

GetVkFormatPlaneCount(format) ==
    CASE format \in PlaneCount1Formats -> 1
      [] format \in PlaneCount2Formats -> 2
      [] format \in PlaneCount3Formats -> 3
      [] OTHER -> 0

\* the formats BitsPerPixel maps to 256
Bpp256Formats ==
    {
      "VK_FORMAT_R64G64B64A64_UINT", "VK_FORMAT_R64G64B64A64_SINT", "VK_FORMAT_R64G64B64A64_SFLOAT"
    }

\* the formats BitsPerPixel maps to 192
Bpp192Formats ==
    {
      "VK_FORMAT_R64G64B64_UINT", "VK_FORMAT_R64G64B64_SINT", "VK_FORMAT_R64G64B64_SFLOAT"
    }

\* the formats BitsPerPixel maps to 128
Bpp128Formats ==
    {
      "VK_FORMAT_R32G32B32A32_UINT", "VK_FORMAT_R32G32B32A32_SINT", "VK_FORMAT_R32G32B32A32_SFLOAT",
      "VK_FORMAT_R64G64_UINT", "VK_FORMAT_R64G64_SINT", "VK_FORMAT_R64G64_SFLOAT"
    }

\* the formats BitsPerPixel maps to 96
Bpp96Formats ==
    {
      "VK_FORMAT_R32G32B32_UINT", "VK_FORMAT_R32G32B32_SINT", "VK_FORMAT_R32G32B32_SFLOAT"
    }

\* the formats BitsPerPixel maps to 64
Bpp64Formats ==
    {
      "VK_FORMAT_R16G16B16A16_UNORM", "VK_FORMAT_R16G16B16A16_SNORM", "VK_FORMAT_R16G16B16A16_USCALED",
      "VK_FORMAT_R16G16B16A16_SSCALED", "VK_FORMAT_R16G16B16A16_UINT", "VK_FORMAT_R16G16B16A16_SINT",
      "VK_FORMAT_R16G16B16A16_SFLOAT", "VK_FORMAT_R32G32_UINT", "VK_FORMAT_R32G32_SINT",
      "VK_FORMAT_R32G32_SFLOAT", "VK_FORMAT_R64_UINT", "VK_FORMAT_R64_SINT", "VK_FORMAT_R64_SFLOAT",
      "VK_FORMAT_R10X6G10X6B10X6A10X6_UNORM_4PACK16", "VK_FORMAT_G10X6B10X6G10X6R10X6_422_UNORM_4PACK16",
      "VK_FORMAT_B10X6G10X6R10X6G10X6_422_UNORM_4PACK16", "VK_FORMAT_R12X4G12X4B12X4A12X4_UNORM_4PACK16",
      "VK_FORMAT_G12X4B12X4G12X4R12X4_422_UNORM_4PACK16",
      "VK_FORMAT_B12X4G12X4R12X4G12X4_422_UNORM_4PACK16", "VK_FORMAT_G16B16G16R16_422_UNORM",
      "VK_FORMAT_B16G16R16G16_422_UNORM"
    }

\* the formats BitsPerPixel maps to 48
Bpp48Formats ==
    {
      "VK_FORMAT_R16G16B16_UNORM", "VK_FORMAT_R16G16B16_SNORM", "VK_FORMAT_R16G16B16_USCALED",
      "VK_FORMAT_R16G16B16_SSCALED", "VK_FORMAT_R16G16B16_UINT", "VK_FORMAT_R16G16B16_SINT",
      "VK_FORMAT_R16G16B16_SFLOAT", "VK_FORMAT_G10X6_B10X6_R10X6_3PLANE_444_UNORM_3PACK16",
      "VK_FORMAT_G12X4_B12X4_R12X4_3PLANE_444_UNORM_3PACK16", "VK_FORMAT_G16_B16_R16_3PLANE_444_UNORM"
    }

\* the formats BitsPerPixel maps to 40
Bpp40Formats ==
    {
      "VK_FORMAT_D32_SFLOAT_S8_UINT"
    }

\* the formats BitsPerPixel maps to 32
Bpp32Formats ==
    {
      "VK_FORMAT_R8G8B8A8_UNORM", "VK_FORMAT_R8G8B8A8_SNORM", "VK_FORMAT_R8G8B8A8_USCALED",
      "VK_FORMAT_R8G8B8A8_SSCALED", "VK_FORMAT_R8G8B8A8_UINT", "VK_FORMAT_R8G8B8A8_SINT",
      "VK_FORMAT_R8G8B8A8_SRGB", "VK_FORMAT_B8G8R8A8_UNORM", "VK_FORMAT_B8G8R8A8_SNORM",
      "VK_FORMAT_B8G8R8A8_USCALED", "VK_FORMAT_B8G8R8A8_SSCALED", "VK_FORMAT_B8G8R8A8_UINT",
      "VK_FORMAT_B8G8R8A8_SINT", "VK_FORMAT_B8G8R8A8_SRGB", "VK_FORMAT_A8B8G8R8_UNORM_PACK32",
      "VK_FORMAT_A8B8G8R8_SNORM_PACK32", "VK_FORMAT_A8B8G8R8_USCALED_PACK32",
      "VK_FORMAT_A8B8G8R8_SSCALED_PACK32", "VK_FORMAT_A8B8G8R8_UINT_PACK32",
      "VK_FORMAT_A8B8G8R8_SINT_PACK32", "VK_FORMAT_A8B8G8R8_SRGB_PACK32",
      "VK_FORMAT_A2R10G10B10_UNORM_PACK32", "VK_FORMAT_A2R10G10B10_SNORM_PACK32",
      "VK_FORMAT_A2R10G10B10_USCALED_PACK32", "VK_FORMAT_A2R10G10B10_SSCALED_PACK32",
      "VK_FORMAT_A2R10G10B10_UINT_PACK32", "VK_FORMAT_A2R10G10B10_SINT_PACK32",
      "VK_FORMAT_A2B10G10R10_UNORM_PACK32", "VK_FORMAT_A2B10G10R10_SNORM_PACK32",
      "VK_FORMAT_A2B10G10R10_USCALED_PACK32", "VK_FORMAT_A2B10G10R10_SSCALED_PACK32",
      "VK_FORMAT_A2B10G10R10_UINT_PACK32", "VK_FORMAT_A2B10G10R10_SINT_PACK32", "VK_FORMAT_R16G16_UNORM",
      "VK_FORMAT_R16G16_SNORM", "VK_FORMAT_R16G16_USCALED", "VK_FORMAT_R16G16_SSCALED",
      "VK_FORMAT_R16G16_UINT", "VK_FORMAT_R16G16_SINT", "VK_FORMAT_R16G16_SFLOAT", "VK_FORMAT_R32_UINT",
      "VK_FORMAT_R32_SINT", "VK_FORMAT_R32_SFLOAT", "VK_FORMAT_B10G11R11_UFLOAT_PACK32",
      "VK_FORMAT_E5B9G9R9_UFLOAT_PACK32", "VK_FORMAT_X8_D24_UNORM_PACK32", "VK_FORMAT_D32_SFLOAT",
      "VK_FORMAT_D24_UNORM_S8_UINT", "VK_FORMAT_G8B8G8R8_422_UNORM", "VK_FORMAT_B8G8R8G8_422_UNORM",
      "VK_FORMAT_R10X6G10X6_UNORM_2PACK16", "VK_FORMAT_R12X4G12X4_UNORM_2PACK16",
      "VK_FORMAT_G10X6_B10X6_R10X6_3PLANE_422_UNORM_3PACK16",
      "VK_FORMAT_G10X6_B10X6R10X6_2PLANE_422_UNORM_3PACK16",
      "VK_FORMAT_G12X4_B12X4_R12X4_3PLANE_422_UNORM_3PACK16",
      "VK_FORMAT_G12X4_B12X4R12X4_2PLANE_422_UNORM_3PACK16", "VK_FORMAT_G16_B16_R16_3PLANE_422_UNORM",
      "VK_FORMAT_G16_B16R16_2PLANE_422_UNORM"
    }

\* the formats BitsPerPixel maps to 24
Bpp24Formats ==
    {
      "VK_FORMAT_R8G8B8_UNORM", "VK_FORMAT_R8G8B8_SNORM", "VK_FORMAT_R8G8B8_USCALED",
      "VK_FORMAT_R8G8B8_SSCALED", "VK_FORMAT_R8G8B8_UINT", "VK_FORMAT_R8G8B8_SINT",
      "VK_FORMAT_R8G8B8_SRGB", "VK_FORMAT_B8G8R8_UNORM", "VK_FORMAT_B8G8R8_SNORM",
      "VK_FORMAT_B8G8R8_USCALED", "VK_FORMAT_B8G8R8_SSCALED", "VK_FORMAT_B8G8R8_UINT",
      "VK_FORMAT_B8G8R8_SINT", "VK_FORMAT_B8G8R8_SRGB", "VK_FORMAT_D16_UNORM_S8_UINT",
      "VK_FORMAT_G8_B8_R8_3PLANE_444_UNORM", "VK_FORMAT_G10X6_B10X6_R10X6_3PLANE_420_UNORM_3PACK16",
      "VK_FORMAT_G10X6_B10X6R10X6_2PLANE_420_UNORM_3PACK16",
      "VK_FORMAT_G12X4_B12X4_R12X4_3PLANE_420_UNORM_3PACK16",
      "VK_FORMAT_G12X4_B12X4R12X4_2PLANE_420_UNORM_3PACK16", "VK_FORMAT_G16_B16_R16_3PLANE_420_UNORM",
      "VK_FORMAT_G16_B16R16_2PLANE_420_UNORM"
    }

\* the formats BitsPerPixel maps to 16
Bpp16Formats ==
    {
      "VK_FORMAT_R4G4B4A4_UNORM_PACK16", "VK_FORMAT_B4G4R4A4_UNORM_PACK16",
      "VK_FORMAT_R5G6B5_UNORM_PACK16", "VK_FORMAT_B5G6R5_UNORM_PACK16", "VK_FORMAT_R5G5B5A1_UNORM_PACK16",
      "VK_FORMAT_B5G5R5A1_UNORM_PACK16", "VK_FORMAT_A1R5G5B5_UNORM_PACK16", "VK_FORMAT_R8G8_UNORM",
      "VK_FORMAT_R8G8_SNORM", "VK_FORMAT_R8G8_USCALED", "VK_FORMAT_R8G8_SSCALED", "VK_FORMAT_R8G8_UINT",
      "VK_FORMAT_R8G8_SINT", "VK_FORMAT_R8G8_SRGB", "VK_FORMAT_R16_UNORM", "VK_FORMAT_R16_SNORM",
      "VK_FORMAT_R16_USCALED", "VK_FORMAT_R16_SSCALED", "VK_FORMAT_R16_UINT", "VK_FORMAT_R16_SINT",
      "VK_FORMAT_R16_SFLOAT", "VK_FORMAT_D16_UNORM", "VK_FORMAT_R10X6_UNORM_PACK16",
      "VK_FORMAT_R12X4_UNORM_PACK16", "VK_FORMAT_G8_B8_R8_3PLANE_422_UNORM",
      "VK_FORMAT_G8_B8R8_2PLANE_422_UNORM", "VK_FORMAT_A4R4G4B4_UNORM_PACK16_EXT",
      "VK_FORMAT_A4B4G4R4_UNORM_PACK16_EXT"
    }

\* the formats BitsPerPixel maps to 12
Bpp12Formats ==
    {
      "VK_FORMAT_G8_B8_R8_3PLANE_420_UNORM", "VK_FORMAT_G8_B8R8_2PLANE_420_UNORM"
    }

\* the formats BitsPerPixel maps to 8
Bpp8Formats ==
    {
      "VK_FORMAT_R4G4_UNORM_PACK8", "VK_FORMAT_R8_UNORM", "VK_FORMAT_R8_SNORM", "VK_FORMAT_R8_USCALED",
      "VK_FORMAT_R8_SSCALED", "VK_FORMAT_R8_UINT", "VK_FORMAT_R8_SINT", "VK_FORMAT_R8_SRGB",
      "VK_FORMAT_BC2_UNORM_BLOCK", "VK_FORMAT_BC2_SRGB_BLOCK", "VK_FORMAT_BC3_UNORM_BLOCK",
      "VK_FORMAT_BC3_SRGB_BLOCK", "VK_FORMAT_BC5_UNORM_BLOCK", "VK_FORMAT_BC5_SNORM_BLOCK",
      "VK_FORMAT_BC6H_UFLOAT_BLOCK", "VK_FORMAT_BC6H_SFLOAT_BLOCK", "VK_FORMAT_BC7_UNORM_BLOCK",
      "VK_FORMAT_BC7_SRGB_BLOCK", "VK_FORMAT_EAC_R11G11_UNORM_BLOCK", "VK_FORMAT_EAC_R11G11_SNORM_BLOCK",
      "VK_FORMAT_ASTC_4x4_UNORM_BLOCK", "VK_FORMAT_ASTC_4x4_SRGB_BLOCK", "VK_FORMAT_ASTC_5x4_UNORM_BLOCK",
      "VK_FORMAT_ASTC_5x4_SRGB_BLOCK", "VK_FORMAT_ASTC_5x5_UNORM_BLOCK", "VK_FORMAT_ASTC_5x5_SRGB_BLOCK",
      "VK_FORMAT_ASTC_6x5_UNORM_BLOCK", "VK_FORMAT_ASTC_6x5_SRGB_BLOCK", "VK_FORMAT_S8_UINT",
      "VK_FORMAT_ASTC_4x4_SFLOAT_BLOCK_EXT", "VK_FORMAT_ASTC_5x4_SFLOAT_BLOCK_EXT",
      "VK_FORMAT_ASTC_5x5_SFLOAT_BLOCK_EXT", "VK_FORMAT_ASTC_6x5_SFLOAT_BLOCK_EXT"
    }

\* the formats BitsPerPixel maps to 4
Bpp4Formats ==
    {
      "VK_FORMAT_BC1_RGB_UNORM_BLOCK", "VK_FORMAT_BC1_RGB_SRGB_BLOCK", "VK_FORMAT_BC1_RGBA_UNORM_BLOCK",
      "VK_FORMAT_BC1_RGBA_SRGB_BLOCK", "VK_FORMAT_BC4_UNORM_BLOCK", "VK_FORMAT_BC4_SNORM_BLOCK",
      "VK_FORMAT_ETC2_R8G8B8_UNORM_BLOCK", "VK_FORMAT_ETC2_R8G8B8_SRGB_BLOCK",
      "VK_FORMAT_ETC2_R8G8B8A1_UNORM_BLOCK", "VK_FORMAT_ETC2_R8G8B8A1_SRGB_BLOCK",
      "VK_FORMAT_ETC2_R8G8B8A8_UNORM_BLOCK", "VK_FORMAT_ETC2_R8G8B8A8_SRGB_BLOCK",
      "VK_FORMAT_EAC_R11_UNORM_BLOCK", "VK_FORMAT_EAC_R11_SNORM_BLOCK", "VK_FORMAT_ASTC_6x6_UNORM_BLOCK",
      "VK_FORMAT_ASTC_6x6_SRGB_BLOCK", "VK_FORMAT_ASTC_8x5_UNORM_BLOCK", "VK_FORMAT_ASTC_8x5_SRGB_BLOCK",
      "VK_FORMAT_ASTC_8x6_UNORM_BLOCK", "VK_FORMAT_ASTC_8x6_SRGB_BLOCK",
      "VK_FORMAT_ASTC_10x5_UNORM_BLOCK", "VK_FORMAT_ASTC_10x5_SRGB_BLOCK",
      "VK_FORMAT_ASTC_10x6_UNORM_BLOCK", "VK_FORMAT_ASTC_10x6_SRGB_BLOCK",
      "VK_FORMAT_PVRTC1_4BPP_UNORM_BLOCK_IMG", "VK_FORMAT_PVRTC2_4BPP_UNORM_BLOCK_IMG",
      "VK_FORMAT_PVRTC1_4BPP_SRGB_BLOCK_IMG", "VK_FORMAT_PVRTC2_4BPP_SRGB_BLOCK_IMG",
      "VK_FORMAT_ASTC_6x6_SFLOAT_BLOCK_EXT", "VK_FORMAT_ASTC_8x5_SFLOAT_BLOCK_EXT",
      "VK_FORMAT_ASTC_8x6_SFLOAT_BLOCK_EXT", "VK_FORMAT_ASTC_10x5_SFLOAT_BLOCK_EXT",
      "VK_FORMAT_ASTC_10x6_SFLOAT_BLOCK_EXT"
    }

\* the formats BitsPerPixel maps to 2
Bpp2Formats ==
    {
      "VK_FORMAT_ASTC_8x8_UNORM_BLOCK", "VK_FORMAT_ASTC_8x8_SRGB_BLOCK",
      "VK_FORMAT_ASTC_10x8_UNORM_BLOCK", "VK_FORMAT_ASTC_10x8_SRGB_BLOCK",
      "VK_FORMAT_ASTC_10x10_UNORM_BLOCK", "VK_FORMAT_ASTC_10x10_SRGB_BLOCK",
      "VK_FORMAT_ASTC_12x10_UNORM_BLOCK", "VK_FORMAT_ASTC_12x10_SRGB_BLOCK",
      "VK_FORMAT_PVRTC1_2BPP_UNORM_BLOCK_IMG", "VK_FORMAT_PVRTC2_2BPP_UNORM_BLOCK_IMG",
      "VK_FORMAT_PVRTC1_2BPP_SRGB_BLOCK_IMG", "VK_FORMAT_PVRTC2_2BPP_SRGB_BLOCK_IMG",
      "VK_FORMAT_ASTC_8x8_SFLOAT_BLOCK_EXT", "VK_FORMAT_ASTC_10x8_SFLOAT_BLOCK_EXT",
      "VK_FORMAT_ASTC_10x10_SFLOAT_BLOCK_EXT", "VK_FORMAT_ASTC_12x10_SFLOAT_BLOCK_EXT"
    }

\* the formats BitsPerPixel maps to 1
Bpp1Formats ==
    {
      "VK_FORMAT_ASTC_12x12_UNORM_BLOCK", "VK_FORMAT_ASTC_12x12_SRGB_BLOCK",
      "VK_FORMAT_ASTC_12x12_SFLOAT_BLOCK_EXT"
    }

BitsPerPixel(fmt) ==
    CASE fmt \in Bpp256Formats -> 256
      [] fmt \in Bpp192Formats -> 192
      [] fmt \in Bpp128Formats -> 128
      [] fmt \in Bpp96Formats -> 96
      [] fmt \in Bpp64Formats -> 64
      [] fmt \in Bpp48Formats -> 48
      [] fmt \in Bpp40Formats -> 40
      [] fmt \in Bpp32Formats -> 32
      [] fmt \in Bpp24Formats -> 24
      [] fmt \in Bpp16Formats -> 16
      [] fmt \in Bpp12Formats -> 12
      [] fmt \in Bpp8Formats -> 8
      [] fmt \in Bpp4Formats -> 4
      [] fmt \in Bpp2Formats -> 2
      [] fmt \in Bpp1Formats -> 1
      [] OTHER -> 0

\* the formats GetSurfaceInfo gives isBlockFormat, blockWidth 4, blockHeight 4, bytesPerBlock 8
Block4x4Bytes8Formats ==
    {
      "VK_FORMAT_BC1_RGB_UNORM_BLOCK", "VK_FORMAT_BC1_RGB_SRGB_BLOCK", "VK_FORMAT_BC1_RGBA_UNORM_BLOCK",
      "VK_FORMAT_BC1_RGBA_SRGB_BLOCK", "VK_FORMAT_BC4_UNORM_BLOCK", "VK_FORMAT_BC4_SNORM_BLOCK",
      "VK_FORMAT_ETC2_R8G8B8_UNORM_BLOCK", "VK_FORMAT_ETC2_R8G8B8_SRGB_BLOCK",
      "VK_FORMAT_ETC2_R8G8B8A1_UNORM_BLOCK", "VK_FORMAT_ETC2_R8G8B8A1_SRGB_BLOCK",
      "VK_FORMAT_EAC_R11_UNORM_BLOCK", "VK_FORMAT_EAC_R11_SNORM_BLOCK"
    }

\* the formats GetSurfaceInfo gives isBlockFormat, blockWidth 4, blockHeight 4, bytesPerBlock 16
Block4x4Bytes16Formats ==
    {
      "VK_FORMAT_BC2_UNORM_BLOCK", "VK_FORMAT_BC2_SRGB_BLOCK", "VK_FORMAT_BC3_UNORM_BLOCK",
      "VK_FORMAT_BC3_SRGB_BLOCK", "VK_FORMAT_BC5_UNORM_BLOCK", "VK_FORMAT_BC5_SNORM_BLOCK",
      "VK_FORMAT_BC6H_UFLOAT_BLOCK", "VK_FORMAT_BC6H_SFLOAT_BLOCK", "VK_FORMAT_BC7_UNORM_BLOCK",
      "VK_FORMAT_BC7_SRGB_BLOCK", "VK_FORMAT_ETC2_R8G8B8A8_UNORM_BLOCK",
      "VK_FORMAT_ETC2_R8G8B8A8_SRGB_BLOCK", "VK_FORMAT_EAC_R11G11_UNORM_BLOCK",
      "VK_FORMAT_EAC_R11G11_SNORM_BLOCK", "VK_FORMAT_ASTC_4x4_UNORM_BLOCK",
      "VK_FORMAT_ASTC_4x4_SRGB_BLOCK", "VK_FORMAT_ASTC_4x4_SFLOAT_BLOCK_EXT"
    }

\* the formats GetSurfaceInfo gives isBlockFormat, blockWidth 5, blockHeight 4, bytesPerBlock 16
Block5x4Bytes16Formats ==
    {
      "VK_FORMAT_ASTC_5x4_UNORM_BLOCK", "VK_FORMAT_ASTC_5x4_SRGB_BLOCK",
      "VK_FORMAT_ASTC_5x4_SFLOAT_BLOCK_EXT"
    }

\* the formats GetSurfaceInfo gives isBlockFormat, blockWidth 5, blockHeight 5, bytesPerBlock 16
Block5x5Bytes16Formats ==
    {
      "VK_FORMAT_ASTC_5x5_UNORM_BLOCK", "VK_FORMAT_ASTC_5x5_SRGB_BLOCK",
      "VK_FORMAT_ASTC_5x5_SFLOAT_BLOCK_EXT"
    }

\* the formats GetSurfaceInfo gives isBlockFormat, blockWidth 6, blockHeight 5, bytesPerBlock 16
Block6x5Bytes16Formats ==
    {
      "VK_FORMAT_ASTC_6x5_UNORM_BLOCK", "VK_FORMAT_ASTC_6x5_SRGB_BLOCK",
      "VK_FORMAT_ASTC_6x5_SFLOAT_BLOCK_EXT"
    }

\* the formats GetSurfaceInfo gives isBlockFormat, blockWidth 6, blockHeight 6, bytesPerBlock 16
Block6x6Bytes16Formats ==
    {
      "VK_FORMAT_ASTC_6x6_UNORM_BLOCK", "VK_FORMAT_ASTC_6x6_SRGB_BLOCK",
      "VK_FORMAT_ASTC_6x6_SFLOAT_BLOCK_EXT"
    }

\* the formats GetSurfaceInfo gives isBlockFormat, blockWidth 8, blockHeight 5, bytesPerBlock 16
Block8x5Bytes16Formats ==
    {
      "VK_FORMAT_ASTC_8x5_UNORM_BLOCK", "VK_FORMAT_ASTC_8x5_SRGB_BLOCK",
      "VK_FORMAT_ASTC_8x5_SFLOAT_BLOCK_EXT"
    }

\* the formats GetSurfaceInfo gives isBlockFormat, blockWidth 8, blockHeight 6, bytesPerBlock 16
Block8x6Bytes16Formats ==
    {
      "VK_FORMAT_ASTC_8x6_UNORM_BLOCK", "VK_FORMAT_ASTC_8x6_SRGB_BLOCK",
      "VK_FORMAT_ASTC_8x6_SFLOAT_BLOCK_EXT"
    }

\* the formats GetSurfaceInfo gives isBlockFormat, blockWidth 8, blockHeight 8, bytesPerBlock 16
Block8x8Bytes16Formats ==
    {
      "VK_FORMAT_ASTC_8x8_UNORM_BLOCK", "VK_FORMAT_ASTC_8x8_SRGB_BLOCK",
      "VK_FORMAT_ASTC_8x8_SFLOAT_BLOCK_EXT"
    }

\* the formats GetSurfaceInfo gives isBlockFormat, blockWidth 10, blockHeight 5, bytesPerBlock 16
Block10x5Bytes16Formats ==
    {
      "VK_FORMAT_ASTC_10x5_UNORM_BLOCK", "VK_FORMAT_ASTC_10x5_SRGB_BLOCK",
      "VK_FORMAT_ASTC_10x5_SFLOAT_BLOCK_EXT"
    }

\* the formats GetSurfaceInfo gives isBlockFormat, blockWidth 10, blockHeight 6, bytesPerBlock 16
Block10x6Bytes16Formats ==
    {
      "VK_FORMAT_ASTC_10x6_UNORM_BLOCK", "VK_FORMAT_ASTC_10x6_SRGB_BLOCK",
      "VK_FORMAT_ASTC_10x6_SFLOAT_BLOCK_EXT"
    }

\* the formats GetSurfaceInfo gives isBlockFormat, blockWidth 10, blockHeight 8, bytesPerBlock 16
Block10x8Bytes16Formats ==
    {
      "VK_FORMAT_ASTC_10x8_UNORM_BLOCK", "VK_FORMAT_ASTC_10x8_SRGB_BLOCK",
      "VK_FORMAT_ASTC_10x8_SFLOAT_BLOCK_EXT"
    }

\* the formats GetSurfaceInfo gives isBlockFormat, blockWidth 10, blockHeight 10, bytesPerBlock 16
Block10x10Bytes16Formats ==
    {
      "VK_FORMAT_ASTC_10x10_UNORM_BLOCK", "VK_FORMAT_ASTC_10x10_SRGB_BLOCK",
      "VK_FORMAT_ASTC_10x10_SFLOAT_BLOCK_EXT"
    }

\* the formats GetSurfaceInfo gives isBlockFormat, blockWidth 12, blockHeight 10, bytesPerBlock 16
Block12x10Bytes16Formats ==
    {
      "VK_FORMAT_ASTC_12x10_UNORM_BLOCK", "VK_FORMAT_ASTC_12x10_SRGB_BLOCK",
      "VK_FORMAT_ASTC_12x10_SFLOAT_BLOCK_EXT"
    }

\* the formats GetSurfaceInfo gives isBlockFormat, blockWidth 12, blockHeight 12, bytesPerBlock 16
Block12x12Bytes16Formats ==
    {
      "VK_FORMAT_ASTC_12x12_UNORM_BLOCK", "VK_FORMAT_ASTC_12x12_SRGB_BLOCK",
      "VK_FORMAT_ASTC_12x12_SFLOAT_BLOCK_EXT"
    }

\* the formats GetSurfaceInfo gives isPackedFormat, blockWidth 2, blockHeight 1, bytesPerBlock 4
Packed2x1Bytes4Formats ==
    {
      "VK_FORMAT_G8B8G8R8_422_UNORM", "VK_FORMAT_B8G8R8G8_422_UNORM"
    }

\* the formats GetSurfaceInfo gives isPackedFormat, blockWidth 2, blockHeight 1, bytesPerBlock 8
Packed2x1Bytes8Formats ==
    {
      "VK_FORMAT_G10X6B10X6G10X6R10X6_422_UNORM_4PACK16",
      "VK_FORMAT_B10X6G10X6R10X6G10X6_422_UNORM_4PACK16",
      "VK_FORMAT_G12X4B12X4G12X4R12X4_422_UNORM_4PACK16",
      "VK_FORMAT_B12X4G12X4R12X4G12X4_422_UNORM_4PACK16", "VK_FORMAT_G16B16G16R16_422_UNORM",
      "VK_FORMAT_B16G16R16G16_422_UNORM"
    }

\* the formats GetSurfaceInfo gives is2PlaneFormat, blockWidth 2, blockHeight 2, bytesPerBlock 6
TwoPlane2x2Bytes6Formats ==
    {
      "VK_FORMAT_G8_B8R8_2PLANE_420_UNORM"
    }

\* the formats GetSurfaceInfo gives is2PlaneFormat, blockWidth 2, blockHeight 1, bytesPerBlock 4
TwoPlane2x1Bytes4Formats ==
    {
      "VK_FORMAT_G8_B8R8_2PLANE_422_UNORM"
    }

\* the formats GetSurfaceInfo gives is2PlaneFormat, blockWidth 2, blockHeight 2, bytesPerBlock 12
TwoPlane2x2Bytes12Formats ==
    {
      "VK_FORMAT_G10X6_B10X6R10X6_2PLANE_420_UNORM_3PACK16",
      "VK_FORMAT_G12X4_B12X4R12X4_2PLANE_420_UNORM_3PACK16", "VK_FORMAT_G16_B16R16_2PLANE_420_UNORM"
    }

\* the formats GetSurfaceInfo gives is2PlaneFormat, blockWidth 2, blockHeight 1, bytesPerBlock 8
TwoPlane2x1Bytes8Formats ==
    {
      "VK_FORMAT_G10X6_B10X6R10X6_2PLANE_422_UNORM_3PACK16",
      "VK_FORMAT_G12X4_B12X4R12X4_2PLANE_422_UNORM_3PACK16", "VK_FORMAT_G16_B16R16_2PLANE_422_UNORM"
    }

\* the formats GetSurfaceInfo gives is3PlaneFormat, blockWidth 2, blockHeight 2, bytesPerBlock 6
ThreePlane2x2Bytes6Formats ==
    {
      "VK_FORMAT_G8_B8_R8_3PLANE_420_UNORM"
    }

\* the formats GetSurfaceInfo gives is3PlaneFormat, blockWidth 2, blockHeight 1, bytesPerBlock 4
ThreePlane2x1Bytes4Formats ==
    {
      "VK_FORMAT_G8_B8_R8_3PLANE_422_UNORM"
    }

\* the formats GetSurfaceInfo gives is3PlaneFormat, blockWidth 1, blockHeight 1, bytesPerBlock 3
ThreePlane1x1Bytes3Formats ==
    {
      "VK_FORMAT_G8_B8_R8_3PLANE_444_UNORM"
    }

\* the formats GetSurfaceInfo gives is3PlaneFormat, blockWidth 2, blockHeight 2, bytesPerBlock 12
ThreePlane2x2Bytes12Formats ==
    {
      "VK_FORMAT_G10X6_B10X6_R10X6_3PLANE_420_UNORM_3PACK16",
      "VK_FORMAT_G12X4_B12X4_R12X4_3PLANE_420_UNORM_3PACK16", "VK_FORMAT_G16_B16_R16_3PLANE_420_UNORM"
    }

\* the formats GetSurfaceInfo gives is3PlaneFormat, blockWidth 2, blockHeight 1, bytesPerBlock 8
ThreePlane2x1Bytes8Formats ==
    {
      "VK_FORMAT_G10X6_B10X6_R10X6_3PLANE_422_UNORM_3PACK16",
      "VK_FORMAT_G12X4_B12X4_R12X4_3PLANE_422_UNORM_3PACK16", "VK_FORMAT_G16_B16_R16_3PLANE_422_UNORM"
    }

\* the formats GetSurfaceInfo gives is3PlaneFormat, blockWidth 1, blockHeight 1, bytesPerBlock 6
ThreePlane1x1Bytes6Formats ==
    {
      "VK_FORMAT_G10X6_B10X6_R10X6_3PLANE_444_UNORM_3PACK16",
      "VK_FORMAT_G12X4_B12X4_R12X4_3PLANE_444_UNORM_3PACK16", "VK_FORMAT_G16_B16_R16_3PLANE_444_UNORM"
    }

\* the formats GetSurfaceInfo gives isBlockFormat, blockWidth 8, blockHeight 4, bytesPerBlock 8
Block8x4Bytes8Formats ==
    {
      "VK_FORMAT_PVRTC1_2BPP_UNORM_BLOCK_IMG", "VK_FORMAT_PVRTC2_2BPP_UNORM_BLOCK_IMG",
      "VK_FORMAT_PVRTC1_2BPP_SRGB_BLOCK_IMG", "VK_FORMAT_PVRTC2_2BPP_SRGB_BLOCK_IMG",
      "VK_FORMAT_PVRTC1_4BPP_UNORM_BLOCK_IMG", "VK_FORMAT_PVRTC2_4BPP_UNORM_BLOCK_IMG",
      "VK_FORMAT_PVRTC1_4BPP_SRGB_BLOCK_IMG", "VK_FORMAT_PVRTC2_4BPP_SRGB_BLOCK_IMG"
    }

\* the switch of GetSurfaceInfo: layout family, block extent and bytes per block
SurfaceFormatInfo(fmt) ==
    CASE fmt \in Block4x4Bytes8Formats ->
          [kind |-> "isBlockFormat", blockWidth |-> 4, blockHeight |-> 4, bytesPerBlock |-> 8]
      [] fmt \in Block4x4Bytes16Formats ->
          [kind |-> "isBlockFormat", blockWidth |-> 4, blockHeight |-> 4, bytesPerBlock |-> 16]
      [] fmt \in Block5x4Bytes16Formats ->
          [kind |-> "isBlockFormat", blockWidth |-> 5, blockHeight |-> 4, bytesPerBlock |-> 16]
      [] fmt \in Block5x5Bytes16Formats ->
          [kind |-> "isBlockFormat", blockWidth |-> 5, blockHeight |-> 5, bytesPerBlock |-> 16]
      [] fmt \in Block6x5Bytes16Formats ->
          [kind |-> "isBlockFormat", blockWidth |-> 6, blockHeight |-> 5, bytesPerBlock |-> 16]
      [] fmt \in Block6x6Bytes16Formats ->
          [kind |-> "isBlockFormat", blockWidth |-> 6, blockHeight |-> 6, bytesPerBlock |-> 16]
      [] fmt \in Block8x5Bytes16Formats ->
          [kind |-> "isBlockFormat", blockWidth |-> 8, blockHeight |-> 5, bytesPerBlock |-> 16]
      [] fmt \in Block8x6Bytes16Formats ->
          [kind |-> "isBlockFormat", blockWidth |-> 8, blockHeight |-> 6, bytesPerBlock |-> 16]
      [] fmt \in Block8x8Bytes16Formats ->
          [kind |-> "isBlockFormat", blockWidth |-> 8, blockHeight |-> 8, bytesPerBlock |-> 16]
      [] fmt \in Block10x5Bytes16Formats ->
          [kind |-> "isBlockFormat", blockWidth |-> 10, blockHeight |-> 5, bytesPerBlock |-> 16]
      [] fmt \in Block10x6Bytes16Formats ->
          [kind |-> "isBlockFormat", blockWidth |-> 10, blockHeight |-> 6, bytesPerBlock |-> 16]
      [] fmt \in Block10x8Bytes16Formats ->
          [kind |-> "isBlockFormat", blockWidth |-> 10, blockHeight |-> 8, bytesPerBlock |-> 16]
      [] fmt \in Block10x10Bytes16Formats ->
          [kind |-> "isBlockFormat", blockWidth |-> 10, blockHeight |-> 10, bytesPerBlock |-> 16]
      [] fmt \in Block12x10Bytes16Formats ->
          [kind |-> "isBlockFormat", blockWidth |-> 12, blockHeight |-> 10, bytesPerBlock |-> 16]
      [] fmt \in Block12x12Bytes16Formats ->
          [kind |-> "isBlockFormat", blockWidth |-> 12, blockHeight |-> 12, bytesPerBlock |-> 16]
      [] fmt \in Packed2x1Bytes4Formats ->
          [kind |-> "isPackedFormat", blockWidth |-> 2, blockHeight |-> 1, bytesPerBlock |-> 4]
      [] fmt \in Packed2x1Bytes8Formats ->
          [kind |-> "isPackedFormat", blockWidth |-> 2, blockHeight |-> 1, bytesPerBlock |-> 8]
      [] fmt \in TwoPlane2x2Bytes6Formats ->
          [kind |-> "is2PlaneFormat", blockWidth |-> 2, blockHeight |-> 2, bytesPerBlock |-> 6]
      [] fmt \in TwoPlane2x1Bytes4Formats ->
          [kind |-> "is2PlaneFormat", blockWidth |-> 2, blockHeight |-> 1, bytesPerBlock |-> 4]
      [] fmt \in TwoPlane2x2Bytes12Formats ->
          [kind |-> "is2PlaneFormat", blockWidth |-> 2, blockHeight |-> 2, bytesPerBlock |-> 12]
      [] fmt \in TwoPlane2x1Bytes8Formats ->
          [kind |-> "is2PlaneFormat", blockWidth |-> 2, blockHeight |-> 1, bytesPerBlock |-> 8]
      [] fmt \in ThreePlane2x2Bytes6Formats ->
          [kind |-> "is3PlaneFormat", blockWidth |-> 2, blockHeight |-> 2, bytesPerBlock |-> 6]
      [] fmt \in ThreePlane2x1Bytes4Formats ->
          [kind |-> "is3PlaneFormat", blockWidth |-> 2, blockHeight |-> 1, bytesPerBlock |-> 4]
      [] fmt \in ThreePlane1x1Bytes3Formats ->
          [kind |-> "is3PlaneFormat", blockWidth |-> 1, blockHeight |-> 1, bytesPerBlock |-> 3]
      [] fmt \in ThreePlane2x2Bytes12Formats ->
          [kind |-> "is3PlaneFormat", blockWidth |-> 2, blockHeight |-> 2, bytesPerBlock |-> 12]
      [] fmt \in ThreePlane2x1Bytes8Formats ->
          [kind |-> "is3PlaneFormat", blockWidth |-> 2, blockHeight |-> 1, bytesPerBlock |-> 8]
      [] fmt \in ThreePlane1x1Bytes6Formats ->
          [kind |-> "is3PlaneFormat", blockWidth |-> 1, blockHeight |-> 1, bytesPerBlock |-> 6]
      [] fmt \in Block8x4Bytes8Formats ->
          [kind |-> "isBlockFormat", blockWidth |-> 8, blockHeight |-> 4, bytesPerBlock |-> 8]
      [] OTHER -> [kind |-> "none", blockWidth |-> 0, blockHeight |-> 0, bytesPerBlock |-> 0]

MakeSRGB(format) ==
    CASE format = "VK_FORMAT_R8_UNORM" -> "VK_FORMAT_R8_SRGB"
      [] format = "VK_FORMAT_R8G8_UNORM" -> "VK_FORMAT_R8G8_SRGB"
      [] format = "VK_FORMAT_R8G8B8_UNORM" -> "VK_FORMAT_R8G8B8_SRGB"
      [] format = "VK_FORMAT_B8G8R8_UNORM" -> "VK_FORMAT_B8G8R8_SRGB"
      [] format = "VK_FORMAT_R8G8B8A8_UNORM" -> "VK_FORMAT_R8G8B8A8_SRGB"
      [] format = "VK_FORMAT_B8G8R8A8_UNORM" -> "VK_FORMAT_B8G8R8A8_SRGB"
      [] format = "VK_FORMAT_A8B8G8R8_UNORM_PACK32" -> "VK_FORMAT_A8B8G8R8_SRGB_PACK32"
      [] format = "VK_FORMAT_BC1_RGB_UNORM_BLOCK" -> "VK_FORMAT_BC1_RGB_SRGB_BLOCK"
      [] format = "VK_FORMAT_BC1_RGBA_UNORM_BLOCK" -> "VK_FORMAT_BC1_RGBA_SRGB_BLOCK"
      [] format = "VK_FORMAT_BC2_UNORM_BLOCK" -> "VK_FORMAT_BC2_SRGB_BLOCK"
      [] format = "VK_FORMAT_BC3_UNORM_BLOCK" -> "VK_FORMAT_BC3_SRGB_BLOCK"
      [] format = "VK_FORMAT_BC7_UNORM_BLOCK" -> "VK_FORMAT_BC7_SRGB_BLOCK"
      [] format = "VK_FORMAT_ETC2_R8G8B8_UNORM_BLOCK" -> "VK_FORMAT_ETC2_R8G8B8_SRGB_BLOCK"
      [] format = "VK_FORMAT_ETC2_R8G8B8A1_UNORM_BLOCK" -> "VK_FORMAT_ETC2_R8G8B8A1_SRGB_BLOCK"
      [] format = "VK_FORMAT_ETC2_R8G8B8A8_UNORM_BLOCK" -> "VK_FORMAT_ETC2_R8G8B8A8_SRGB_BLOCK"
      [] format = "VK_FORMAT_ASTC_4x4_UNORM_BLOCK" -> "VK_FORMAT_ASTC_4x4_SRGB_BLOCK"
      [] format = "VK_FORMAT_ASTC_5x4_UNORM_BLOCK" -> "VK_FORMAT_ASTC_5x4_SRGB_BLOCK"
      [] format = "VK_FORMAT_ASTC_5x5_UNORM_BLOCK" -> "VK_FORMAT_ASTC_5x5_SRGB_BLOCK"
      [] format = "VK_FORMAT_ASTC_6x5_UNORM_BLOCK" -> "VK_FORMAT_ASTC_6x5_SRGB_BLOCK"
      [] format = "VK_FORMAT_ASTC_6x6_UNORM_BLOCK" -> "VK_FORMAT_ASTC_6x6_SRGB_BLOCK"
      [] format = "VK_FORMAT_ASTC_8x5_UNORM_BLOCK" -> "VK_FORMAT_ASTC_8x5_SRGB_BLOCK"
      [] format = "VK_FORMAT_ASTC_8x6_UNORM_BLOCK" -> "VK_FORMAT_ASTC_8x6_SRGB_BLOCK"
      [] format = "VK_FORMAT_ASTC_8x8_UNORM_BLOCK" -> "VK_FORMAT_ASTC_8x8_SRGB_BLOCK"
      [] format = "VK_FORMAT_ASTC_10x5_UNORM_BLOCK" -> "VK_FORMAT_ASTC_10x5_SRGB_BLOCK"
      [] format = "VK_FORMAT_ASTC_10x6_UNORM_BLOCK" -> "VK_FORMAT_ASTC_10x6_SRGB_BLOCK"
      [] format = "VK_FORMAT_ASTC_10x8_UNORM_BLOCK" -> "VK_FORMAT_ASTC_10x8_SRGB_BLOCK"
      [] format = "VK_FORMAT_ASTC_10x10_UNORM_BLOCK" -> "VK_FORMAT_ASTC_10x10_SRGB_BLOCK"
      [] format = "VK_FORMAT_ASTC_12x10_UNORM_BLOCK" -> "VK_FORMAT_ASTC_12x10_SRGB_BLOCK"
      [] format = "VK_FORMAT_ASTC_12x12_UNORM_BLOCK" -> "VK_FORMAT_ASTC_12x12_SRGB_BLOCK"
      [] format = "VK_FORMAT_PVRTC1_2BPP_UNORM_BLOCK_IMG" -> "VK_FORMAT_PVRTC1_2BPP_SRGB_BLOCK_IMG"
      [] format = "VK_FORMAT_PVRTC1_4BPP_UNORM_BLOCK_IMG" -> "VK_FORMAT_PVRTC1_4BPP_SRGB_BLOCK_IMG"
      [] format = "VK_FORMAT_PVRTC2_2BPP_UNORM_BLOCK_IMG" -> "VK_FORMAT_PVRTC2_2BPP_SRGB_BLOCK_IMG"
      [] format = "VK_FORMAT_PVRTC2_4BPP_UNORM_BLOCK_IMG" -> "VK_FORMAT_PVRTC2_4BPP_SRGB_BLOCK_IMG"
      [] OTHER -> format

IsDepthStencil(fmt) ==
    fmt \in {
      "VK_FORMAT_D16_UNORM", "VK_FORMAT_X8_D24_UNORM_PACK32", "VK_FORMAT_D32_SFLOAT", "VK_FORMAT_S8_UINT",
      "VK_FORMAT_D16_UNORM_S8_UINT", "VK_FORMAT_D24_UNORM_S8_UINT", "VK_FORMAT_D32_SFLOAT_S8_UINT"
    }

\* ISBITMASK that leaves the alpha mask out of the comparison
ISBITMASK_IgnoresAlpha(ddpf, r, g, b, a) ==
    ddpf.RBitMask = r /\ ddpf.GBitMask = g /\ ddpf.BBitMask = b

\* === Legacy pixel-format mapping =========================================
ISBITMASK(ddpf, r, g, b, a) ==
    ddpf.RBitMask = r /\ ddpf.GBitMask = g /\ ddpf.BBitMask = b /\ ddpf.ABitMask = a

\* the switch on ddpf.fourCC for D3DFORMAT enums
GetVkFormatD3DFMT(fourCC) ==
    CASE fourCC = 36 -> "VK_FORMAT_R16G16B16A16_UNORM"
      [] fourCC = 110 -> "VK_FORMAT_R16G16B16A16_SNORM"
      [] fourCC = 111 -> "VK_FORMAT_R16_SFLOAT"
      [] fourCC = 112 -> "VK_FORMAT_R16G16_SFLOAT"
      [] fourCC = 113 -> "VK_FORMAT_R16G16B16A16_SFLOAT"
      [] fourCC = 114 -> "VK_FORMAT_R32_SFLOAT"
      [] fourCC = 115 -> "VK_FORMAT_R32G32_SFLOAT"
      [] fourCC = 116 -> "VK_FORMAT_R32G32B32A32_SFLOAT"
      [] OTHER -> "VK_FORMAT_UNDEFINED"

GetVkFormat(ddpf) ==
    IF BitAnd(ddpf.flags, DDS_RGB) # 0 THEN
        CASE ddpf.RGBBitCount = 32 ->
               IF ISBITMASK(ddpf, Mask(0, 255), Mask(0, 65280), Mask(255, 0), Mask(65280, 0))
                 THEN "VK_FORMAT_R8G8B8A8_UNORM"
               ELSE IF ISBITMASK(ddpf, Mask(255, 0), Mask(0, 65280), Mask(0, 255), Mask(65280, 0))
                 THEN "VK_FORMAT_B8G8R8A8_UNORM"
               ELSE IF ISBITMASK(ddpf, Mask(255, 0), Mask(0, 65280), Mask(0, 255), Mask(0, 0))
                 THEN "VK_FORMAT_UNDEFINED"
               ELSE IF ISBITMASK(ddpf, Mask(16368, 0), Mask(15, 64512), Mask(0, 1023), Mask(49152, 0))
                 THEN "VK_FORMAT_A2B10G10R10_UNORM_PACK32"
               ELSE IF ISBITMASK(ddpf, Mask(0, 1023), Mask(15, 64512), Mask(16368, 0), Mask(49152, 0))
                 THEN "VK_FORMAT_A2R10G10B10_UNORM_PACK32"
               ELSE IF ISBITMASK(ddpf, Mask(0, 65535), Mask(65535, 0), Mask(0, 0), Mask(0, 0))
                 THEN "VK_FORMAT_R16G16_UNORM"
               ELSE IF ISBITMASK(ddpf, Mask(65535, 65535), Mask(0, 0), Mask(0, 0), Mask(0, 0))
                 THEN "VK_FORMAT_R32_SFLOAT"
               ELSE "VK_FORMAT_UNDEFINED"
          [] ddpf.RGBBitCount = 24 ->
               IF ISBITMASK(ddpf, Mask(255, 0), Mask(0, 65280), Mask(0, 255), Mask(0, 0))
                 THEN "VK_FORMAT_R8G8B8_UNORM"
               ELSE "VK_FORMAT_UNDEFINED"
          [] ddpf.RGBBitCount = 16 ->
               IF ISBITMASK(ddpf, Mask(0, 31744), Mask(0, 992), Mask(0, 31), Mask(0, 32768))
                 THEN "VK_FORMAT_A1R5G5B5_UNORM_PACK16"
               ELSE IF ISBITMASK(ddpf, Mask(0, 63488), Mask(0, 2016), Mask(0, 31), Mask(0, 0))
                 THEN "VK_FORMAT_R5G6B5_UNORM_PACK16"
               ELSE IF ISBITMASK(ddpf, Mask(0, 3840), Mask(0, 240), Mask(0, 15), Mask(0, 61440))
                 THEN "VK_FORMAT_A4R4G4B4_UNORM_PACK16_EXT"
               ELSE "VK_FORMAT_UNDEFINED"
          [] OTHER -> "VK_FORMAT_UNDEFINED"
    ELSE IF BitAnd(ddpf.flags, DDS_LUMINANCE) # 0 THEN
        IF ddpf.RGBBitCount = 8 /\ ISBITMASK(ddpf, Mask(0, 255), Mask(0, 0), Mask(0, 0), Mask(0, 0))
          THEN "VK_FORMAT_R8_UNORM"
        ELSE IF ddpf.RGBBitCount = 8 /\ ISBITMASK(ddpf, Mask(0, 15), Mask(0, 0), Mask(0, 0), Mask(0, 240))
          THEN "VK_FORMAT_R4G4_UNORM_PACK8"
        ELSE IF ddpf.RGBBitCount = 8 /\ ISBITMASK(ddpf, Mask(0, 255), Mask(0, 0), Mask(0, 0), Mask(0, 65280))
          THEN "VK_FORMAT_R8G8_UNORM"
        ELSE IF ddpf.RGBBitCount = 16 /\ ISBITMASK(ddpf, Mask(0, 65535), Mask(0, 0), Mask(0, 0), Mask(0, 0))
          THEN "VK_FORMAT_R16_UNORM"
        ELSE IF ddpf.RGBBitCount = 16 /\ ISBITMASK(ddpf, Mask(0, 255), Mask(0, 0), Mask(0, 0), Mask(0, 65280))
          THEN "VK_FORMAT_R8G8_UNORM"
        ELSE "VK_FORMAT_UNDEFINED"
    ELSE IF BitAnd(ddpf.flags, DDS_BUMPDUDV) # 0 THEN
        IF ddpf.RGBBitCount = 16 /\ ISBITMASK(ddpf, Mask(0, 255), Mask(0, 65280), Mask(0, 0), Mask(0, 0))
          THEN "VK_FORMAT_R8G8_SNORM"
        ELSE IF ddpf.RGBBitCount = 32
                /\ ISBITMASK(ddpf, Mask(0, 255), Mask(0, 65280), Mask(255, 0), Mask(65280, 0))
          THEN "VK_FORMAT_R8G8B8A8_SNORM"
        ELSE IF ddpf.RGBBitCount = 32
                /\ ISBITMASK(ddpf, Mask(0, 65535), Mask(65535, 0), Mask(0, 0), Mask(0, 0))
          THEN "VK_FORMAT_R16G16_SNORM"
        ELSE IF ddpf.RGBBitCount = 32
                /\ ISBITMASK(ddpf, Mask(16368, 0), Mask(15, 64512), Mask(0, 1023), Mask(49152, 0))
          THEN "VK_FORMAT_A2B10G10R10_SNORM_PACK32"
        ELSE "VK_FORMAT_UNDEFINED"
    ELSE IF BitAnd(ddpf.flags, DDS_FOURCC) # 0 THEN
        CASE ddpf.fourCC = FourCC("D", "X", "T", "1") -> "VK_FORMAT_BC1_RGBA_UNORM_BLOCK"
          [] ddpf.fourCC = FourCC("D", "X", "T", "3") -> "VK_FORMAT_BC2_UNORM_BLOCK"
          [] ddpf.fourCC = FourCC("D", "X", "T", "5") -> "VK_FORMAT_BC3_UNORM_BLOCK"
          [] ddpf.fourCC = FourCC("D", "X", "T", "2") -> "VK_FORMAT_BC2_UNORM_BLOCK"
          [] ddpf.fourCC = FourCC("D", "X", "T", "4") -> "VK_FORMAT_BC3_UNORM_BLOCK"
          [] ddpf.fourCC = FourCC("A", "T", "I", "1") -> "VK_FORMAT_BC4_UNORM_BLOCK"
          [] ddpf.fourCC = FourCC("B", "C", "4", "U") -> "VK_FORMAT_BC4_UNORM_BLOCK"
          [] ddpf.fourCC = FourCC("B", "C", "4", "S") -> "VK_FORMAT_BC4_SNORM_BLOCK"
          [] ddpf.fourCC = FourCC("A", "T", "I", "2") -> "VK_FORMAT_BC5_UNORM_BLOCK"
          [] ddpf.fourCC = FourCC("B", "C", "5", "U") -> "VK_FORMAT_BC5_UNORM_BLOCK"
          [] ddpf.fourCC = FourCC("B", "C", "5", "S") -> "VK_FORMAT_BC5_SNORM_BLOCK"
          [] ddpf.fourCC = FourCC("R", "G", "B", "G") -> "VK_FORMAT_G8B8G8R8_422_UNORM"
          [] ddpf.fourCC = FourCC("G", "R", "G", "B") -> "VK_FORMAT_B8G8R8G8_422_UNORM"
          [] ddpf.fourCC = FourCC("U", "Y", "V", "Y") -> "VK_FORMAT_G8B8G8R8_422_UNORM"
          [] ddpf.fourCC = FourCC("Y", "U", "Y", "2") -> "VK_FORMAT_B8G8R8G8_422_UNORM"
          [] OTHER -> GetVkFormatD3DFMT(ddpf.fourCC)
    ELSE "VK_FORMAT_UNDEFINED"

\* === Layout Calculator ===================================================
\* std::max<uint64_t>
Max(a, b) == IF a >= b THEN a ELSE b

Min(a, b) == IF a <= b THEN a ELSE b

\* the value that stands for a uint64_t numBytes above UINT32_MAX
AboveUint32 == 0 - 1

\* rowBytes * numRows as FillInitData sees it
SurfaceNumBytes(rowBytes, numRows) ==
    IF ProductExceedsUint32(rowBytes, numRows) THEN AboveUint32 ELSE rowBytes * numRows

\* GetSurfaceInfo with the block counts rounded down and no minimum of one block
GetSurfaceInfo_BlocksRoundedDown(width, height, fmt, aspectPlane) ==
    LET Ok(rowBytes, numRows) ==
            [res |-> "DDS_LOADER_SUCCESS", numBytes |-> SurfaceNumBytes(rowBytes, numRows),
             rowBytes |-> rowBytes, numRows |-> numRows]
        Layout(f) ==
            LET blockWidth == f.blockWidth
                blockHeight == f.blockHeight
                bytesPerBlock == f.bytesPerBlock
            IN  IF f.kind = "isBlockFormat" THEN
                    LET numBlocksWide == IF width > 0 THEN width \div blockWidth ELSE 0
                        numBlocksHigh == IF height > 0 THEN height \div blockHeight ELSE 0
                    IN  Ok(numBlocksWide * bytesPerBlock, numBlocksHigh)
                ELSE IF f.kind = "isPackedFormat" /\ blockWidth = 2 /\ blockHeight = 1 THEN
                    Ok(((width + 1) \div 2) * bytesPerBlock, height)
                ELSE IF f.kind \in {"is2PlaneFormat", "is3PlaneFormat"} THEN
                    IF aspectPlane = "VK_IMAGE_ASPECT_PLANE_0_BIT" THEN
                        Ok((width * bytesPerBlock) \div (blockWidth * blockHeight + 2), height)
                    ELSE
                        LET bytesPerElement == bytesPerBlock \div (blockWidth * blockHeight + 2)
                        IN  Ok(((width + blockWidth - 1) \div blockWidth) * bytesPerElement
                                  * (IF f.kind = "is2PlaneFormat" THEN 2 ELSE 1),
                               (height + blockHeight - 1) \div blockHeight)
                ELSE
                    IF BitsPerPixel(fmt) = 0
                    THEN [res |-> "DDS_LOADER_INVALID_ARG", numBytes |-> 0, rowBytes |-> 0,
                          numRows |-> 0]
                    ELSE Ok((width * BitsPerPixel(fmt) + 7) \div 8, height)
    IN  CHOOSE info \in {Layout(f) : f \in {SurfaceFormatInfo(fmt)}} : TRUE

\* GetSurfaceInfo with the blocks of a row counted by the block height
GetSurfaceInfo_WidthByBlockHeight(width, height, fmt, aspectPlane) ==
    LET Ok(rowBytes, numRows) ==
            [res |-> "DDS_LOADER_SUCCESS", numBytes |-> SurfaceNumBytes(rowBytes, numRows),
             rowBytes |-> rowBytes, numRows |-> numRows]
        Layout(f) ==
            LET blockWidth == f.blockWidth
                blockHeight == f.blockHeight
                bytesPerBlock == f.bytesPerBlock
            IN  IF f.kind = "isBlockFormat" THEN
                    LET numBlocksWide ==
                            IF width > 0
                            THEN Max(1, (width + (blockHeight - 1)) \div blockHeight) ELSE 0
                        numBlocksHigh ==
                            IF height > 0
                            THEN Max(1, (height + (blockHeight - 1)) \div blockHeight) ELSE 0
                    IN  Ok(numBlocksWide * bytesPerBlock, numBlocksHigh)
                ELSE IF f.kind = "isPackedFormat" /\ blockWidth = 2 /\ blockHeight = 1 THEN
                    Ok(((width + 1) \div 2) * bytesPerBlock, height)
                ELSE IF f.kind \in {"is2PlaneFormat", "is3PlaneFormat"} THEN
                    IF aspectPlane = "VK_IMAGE_ASPECT_PLANE_0_BIT" THEN
                        Ok((width * bytesPerBlock) \div (blockWidth * blockHeight + 2), height)
                    ELSE
                        LET bytesPerElement == bytesPerBlock \div (blockWidth * blockHeight + 2)
                        IN  Ok(((width + blockWidth - 1) \div blockWidth) * bytesPerElement
                                  * (IF f.kind = "is2PlaneFormat" THEN 2 ELSE 1),
                               (height + blockHeight - 1) \div blockHeight)
                ELSE
                    IF BitsPerPixel(fmt) = 0
                    THEN [res |-> "DDS_LOADER_INVALID_ARG", numBytes |-> 0, rowBytes |-> 0,
                          numRows |-> 0]
                    ELSE Ok((width * BitsPerPixel(fmt) + 7) \div 8, height)
    IN  CHOOSE info \in {Layout(f) : f \in {SurfaceFormatInfo(fmt)}} : TRUE

GetSurfaceInfo(width, height, fmt, aspectPlane) ==
    LET Ok(rowBytes, numRows) ==
            [res |-> "DDS_LOADER_SUCCESS", numBytes |-> SurfaceNumBytes(rowBytes, numRows),
             rowBytes |-> rowBytes, numRows |-> numRows]
        \* the code after the switch on fmt, which set the flags and the block sizes f
        Layout(f) ==
            LET blockWidth == f.blockWidth
                blockHeight == f.blockHeight
                bytesPerBlock == f.bytesPerBlock
            IN  IF f.kind = "isBlockFormat" THEN
                    LET numBlocksWide ==
                            IF width > 0
                            THEN Max(1, (width + (blockWidth - 1)) \div blockWidth) ELSE 0
                        numBlocksHigh ==
                            IF height > 0
                            THEN Max(1, (height + (blockHeight - 1)) \div blockHeight) ELSE 0
                    IN  Ok(numBlocksWide * bytesPerBlock, numBlocksHigh)
                ELSE IF f.kind = "isPackedFormat" /\ blockWidth = 2 /\ blockHeight = 1 THEN
                    Ok(((width + 1) \div 2) * bytesPerBlock, height)
                ELSE IF f.kind \in {"is2PlaneFormat", "is3PlaneFormat"} THEN
                    IF aspectPlane = "VK_IMAGE_ASPECT_PLANE_0_BIT" THEN
                        Ok((width * bytesPerBlock) \div (blockWidth * blockHeight + 2), height)
                    ELSE
                        LET bytesPerElement == bytesPerBlock \div (blockWidth * blockHeight + 2)
                        IN  Ok(((width + blockWidth - 1) \div blockWidth) * bytesPerElement
                                  * (IF f.kind = "is2PlaneFormat" THEN 2 ELSE 1),
                               (height + blockHeight - 1) \div blockHeight)
                ELSE
                    IF BitsPerPixel(fmt) = 0
                    THEN [res |-> "DDS_LOADER_INVALID_ARG", numBytes |-> 0, rowBytes |-> 0,
                          numRows |-> 0]
                    ELSE Ok((width * BitsPerPixel(fmt) + 7) \div 8, height)
    IN  CHOOSE info \in {Layout(f) : f \in {SurfaceFormatInfo(fmt)}} : TRUE

\* === Subresource Enumerator ==============================================
\* the aspect of plane p (FillInitData, the head of the plane loop)
AspectPlane(p, numberOfPlanes, format) ==
    IF numberOfPlanes = 1 /\ ~IsDepthStencil(format) THEN "VK_IMAGE_ASPECT_COLOR_BIT"
    ELSE IF numberOfPlanes = 1 THEN "VK_IMAGE_ASPECT_DEPTH_BIT|VK_IMAGE_ASPECT_STENCIL_BIT"
    ELSE IF p = 0 THEN "VK_IMAGE_ASPECT_PLANE_0_BIT"
    ELSE IF p = 1 THEN "VK_IMAGE_ASPECT_PLANE_1_BIT"
    ELSE IF p = 2 THEN "VK_IMAGE_ASPECT_PLANE_2_BIT"
    ELSE "VK_IMAGE_ASPECT_FLAG_BITS_MAX_ENUM"

\* the test that keeps a mip level (FillInitData, line 2681)
KeepMip(mipCount, maxsize, w, h, d) ==
    (mipCount <= 1) \/ (maxsize = 0) \/ (w <= maxsize /\ h <= maxsize /\ d <= maxsize)

\* the bounds check with the start of the slice in place of its end
PastEndBits_StartOnly(pSrcBits, NumBytes, d, bitSize) == pSrcBits > bitSize

\* the bounds check of the source cursor (FillInitData, line 2708); pointers are offsets from bitData
PastEndBits(pSrcBits, NumBytes, d, bitSize) == pSrcBits + (NumBytes * d) > bitSize

\* w >> 1 without the floor of 1
NextMipExtent_NoFloor(x) == x \div 2

\* w >> 1 with the floor of 1 (FillInitData, lines 2715-2729)
NextMipExtent(x) == IF x \div 2 = 0 THEN 1 ELSE x \div 2

\* the locals of FillInitData before the plane loop (lines 2620-2629)
FillInitDataStart(width, height, depth) ==
    [res |-> "running", p |-> 0, j |-> 0, i |-> 0, w |-> width, h |-> height, d |-> depth,
     pSrcBits |-> 0, skipMip |-> 0, twidth |-> 0, theight |-> 0, tdepth |-> 0, initData |-> <<>>]

\* a descriptor that names array layer 0 whatever the slice
LoadedSubresourceData_LayerZero(s, dataSize, aspectPlane) ==
    [PData |-> s.pSrcBits, DataByteSize |-> dataSize, aspectMask |-> aspectPlane,
     arrayLayer |-> 0, mipLevel |-> s.i,
     width |-> s.w, height |-> s.h, depth |-> s.d]

\* a LoadedSubresourceData record; PData is held as the offset PData - bitData
LoadedSubresourceData(s, dataSize, aspectPlane) ==
    [PData |-> s.pSrcBits, DataByteSize |-> dataSize, aspectMask |-> aspectPlane,
     arrayLayer |-> s.j, mipLevel |-> s.i,
     width |-> s.w, height |-> s.h, depth |-> s.d]

\* the walk with the cursor left where it is when a mip level is skipped
FillInitData_SkippedNotStepped(width, height, depth, mipCount, arraySize, numberOfPlanes, format, maxsize, bitSize) ==
    LET RECURSIVE MipLoop(_)
        RECURSIVE SliceLoop(_)
        RECURSIVE PlaneLoop(_)
        \* one mip of one slice of one plane: the body of the innermost loop (lines 2666-2730)
        MipStep(s, aspectPlane, surfInfo) ==
            LET NumBytes == surfInfo.numBytes
                dataSize == NumBytes * s.d
                s1 == IF KeepMip(mipCount, maxsize, s.w, s.h, s.d) THEN
                          [s EXCEPT
                             !.twidth = IF s.twidth = 0 THEN s.w ELSE @,
                             !.theight = IF s.twidth = 0 THEN s.h ELSE @,
                             !.tdepth = IF s.twidth = 0 THEN s.d ELSE @,
                             !.initData = Append(@,
                                 LoadedSubresourceData(s, dataSize, aspectPlane))]
                      ELSE IF s.j = 0 THEN [s EXCEPT !.skipMip = @ + 1]
                      ELSE s
            IN  IF surfInfo.res # "DDS_LOADER_SUCCESS" THEN [s EXCEPT !.res = surfInfo.res]
                ELSE IF NumBytes = AboveUint32
                  THEN [s EXCEPT !.res = "DDS_LOADER_ARITHMETIC_OVERFLOW"]
                ELSE IF PastEndBits(s.pSrcBits, NumBytes, s.d, bitSize)
                  THEN [s1 EXCEPT !.res = "DDS_LOADER_UNEXPECTED_EOF"]
                ELSE MipLoop([s1 EXCEPT !.pSrcBits =
                                            IF KeepMip(mipCount, maxsize, s.w, s.h, s.d)
                                            THEN @ + NumBytes * s.d ELSE @,
                                        !.w = NextMipExtent(s.w),
                                        !.h = NextMipExtent(s.h),
                                        !.d = NextMipExtent(s.d),
                                        !.i = @ + 1])
        \* for (i = 0; i < mipCount; i++), from the loop state on
        MipLoop(state) ==
            CHOOSE end \in
                {IF s.i >= mipCount THEN s
                 ELSE CHOOSE next \in
                        {MipStep(s, aspectPlane, surfInfo) :
                            aspectPlane \in {AspectPlane(s.p, numberOfPlanes, format)},
                            surfInfo \in {GetSurfaceInfo(s.w, s.h, format,
                                              AspectPlane(s.p, numberOfPlanes, format))}} :
                        TRUE :
                 s \in {state}} :
                TRUE
        \* for (j = 0; j < arraySize; j++): every slice starts again at the full extent
        SliceLoop(state) ==
            CHOOSE end \in
                {IF s.j >= arraySize THEN s
                 ELSE CHOOSE next \in
                        {IF m.res # "running" THEN m ELSE SliceLoop([m EXCEPT !.j = @ + 1]) :
                            m \in {MipLoop([s EXCEPT !.i = 0, !.w = width, !.h = height,
                                                     !.d = depth])}} :
                        TRUE :
                 s \in {state}} :
                TRUE
        \* for (p = 0; p < numberOfPlanes; ++p): every plane starts again at bitData
        PlaneLoop(state) ==
            CHOOSE end \in
                {IF s.p >= numberOfPlanes
                 THEN [s EXCEPT !.res = IF s.initData = <<>> THEN "DDS_LOADER_FAIL"
                                                             ELSE "DDS_LOADER_SUCCESS"]
                 ELSE CHOOSE next \in
                        {IF m.res # "running" THEN m ELSE PlaneLoop([m EXCEPT !.p = @ + 1]) :
                            m \in {SliceLoop([s EXCEPT !.j = 0, !.pSrcBits = 0])}} :
                        TRUE :
                 s \in {state}} :
                TRUE
    IN  PlaneLoop(FillInitDataStart(width, height, depth))

\* the walk that returns success when it kept no descriptor
FillInitData_EmptyIsSuccess(width, height, depth, mipCount, arraySize, numberOfPlanes, format, maxsize, bitSize) ==
    LET RECURSIVE MipLoop(_)
        RECURSIVE SliceLoop(_)
        RECURSIVE PlaneLoop(_)
        \* one mip of one slice of one plane: the body of the innermost loop (lines 2666-2730)
        MipStep(s, aspectPlane, surfInfo) ==
            LET NumBytes == surfInfo.numBytes
                dataSize == NumBytes * s.d
                s1 == IF KeepMip(mipCount, maxsize, s.w, s.h, s.d) THEN
                          [s EXCEPT
                             !.twidth = IF s.twidth = 0 THEN s.w ELSE @,
                             !.theight = IF s.twidth = 0 THEN s.h ELSE @,
                             !.tdepth = IF s.twidth = 0 THEN s.d ELSE @,
                             !.initData = Append(@,
                                 LoadedSubresourceData(s, dataSize, aspectPlane))]
                      ELSE IF s.j = 0 THEN [s EXCEPT !.skipMip = @ + 1]
                      ELSE s
            IN  IF surfInfo.res # "DDS_LOADER_SUCCESS" THEN [s EXCEPT !.res = surfInfo.res]
                ELSE IF NumBytes = AboveUint32
                  THEN [s EXCEPT !.res = "DDS_LOADER_ARITHMETIC_OVERFLOW"]
                ELSE IF PastEndBits(s.pSrcBits, NumBytes, s.d, bitSize)
                  THEN [s1 EXCEPT !.res = "DDS_LOADER_UNEXPECTED_EOF"]
                ELSE MipLoop([s1 EXCEPT !.pSrcBits = @ + NumBytes * s.d,
                                        !.w = NextMipExtent(s.w),
                                        !.h = NextMipExtent(s.h),
                                        !.d = NextMipExtent(s.d),
                                        !.i = @ + 1])
        \* for (i = 0; i < mipCount; i++), from the loop state on
        MipLoop(state) ==
            CHOOSE end \in
                {IF s.i >= mipCount THEN s
                 ELSE CHOOSE next \in
                        {MipStep(s, aspectPlane, surfInfo) :
                            aspectPlane \in {AspectPlane(s.p, numberOfPlanes, format)},
                            surfInfo \in {GetSurfaceInfo(s.w, s.h, format,
                                              AspectPlane(s.p, numberOfPlanes, format))}} :
                        TRUE :
                 s \in {state}} :
                TRUE
        \* for (j = 0; j < arraySize; j++): every slice starts again at the full extent
        SliceLoop(state) ==
            CHOOSE end \in
                {IF s.j >= arraySize THEN s
                 ELSE CHOOSE next \in
                        {IF m.res # "running" THEN m ELSE SliceLoop([m EXCEPT !.j = @ + 1]) :
                            m \in {MipLoop([s EXCEPT !.i = 0, !.w = width, !.h = height,
                                                     !.d = depth])}} :
                        TRUE :
                 s \in {state}} :
                TRUE
        \* for (p = 0; p < numberOfPlanes; ++p): every plane starts again at bitData
        PlaneLoop(state) ==
            CHOOSE end \in
                {IF s.p >= numberOfPlanes
                 THEN [s EXCEPT !.res = "DDS_LOADER_SUCCESS"]
                 ELSE CHOOSE next \in
                        {IF m.res # "running" THEN m ELSE PlaneLoop([m EXCEPT !.p = @ + 1]) :
                            m \in {SliceLoop([s EXCEPT !.j = 0, !.pSrcBits = 0])}} :
                        TRUE :
                 s \in {state}} :
                TRUE
    IN  PlaneLoop(FillInitDataStart(width, height, depth))

FillInitData(width, height, depth, mipCount, arraySize, numberOfPlanes, format, maxsize, bitSize) ==
    LET RECURSIVE MipLoop(_)
        RECURSIVE SliceLoop(_)
        RECURSIVE PlaneLoop(_)
        \* one mip of one slice of one plane: the body of the innermost loop (lines 2666-2730)
        MipStep(s, aspectPlane, surfInfo) ==
            LET NumBytes == surfInfo.numBytes
                dataSize == NumBytes * s.d
                s1 == IF KeepMip(mipCount, maxsize, s.w, s.h, s.d) THEN
                          [s EXCEPT
                             !.twidth = IF s.twidth = 0 THEN s.w ELSE @,
                             !.theight = IF s.twidth = 0 THEN s.h ELSE @,
                             !.tdepth = IF s.twidth = 0 THEN s.d ELSE @,
                             !.initData = Append(@,
                                 LoadedSubresourceData(s, dataSize, aspectPlane))]
                      ELSE IF s.j = 0 THEN [s EXCEPT !.skipMip = @ + 1]
                      ELSE s
            IN  IF surfInfo.res # "DDS_LOADER_SUCCESS" THEN [s EXCEPT !.res = surfInfo.res]
                ELSE IF NumBytes = AboveUint32
                  THEN [s EXCEPT !.res = "DDS_LOADER_ARITHMETIC_OVERFLOW"]
                ELSE IF PastEndBits(s.pSrcBits, NumBytes, s.d, bitSize)
                  THEN [s1 EXCEPT !.res = "DDS_LOADER_UNEXPECTED_EOF"]
                ELSE MipLoop([s1 EXCEPT !.pSrcBits = @ + NumBytes * s.d,
                                        !.w = NextMipExtent(s.w),
                                        !.h = NextMipExtent(s.h),
                                        !.d = NextMipExtent(s.d),
                                        !.i = @ + 1])
        \* for (i = 0; i < mipCount; i++), from the loop state on
        MipLoop(state) ==
            CHOOSE end \in
                {IF s.i >= mipCount THEN s
                 ELSE CHOOSE next \in
                        {MipStep(s, aspectPlane, surfInfo) :
                            aspectPlane \in {AspectPlane(s.p, numberOfPlanes, format)},
                            surfInfo \in {GetSurfaceInfo(s.w, s.h, format,
                                              AspectPlane(s.p, numberOfPlanes, format))}} :
                        TRUE :
                 s \in {state}} :
                TRUE
        \* for (j = 0; j < arraySize; j++): every slice starts again at the full extent
        SliceLoop(state) ==
            CHOOSE end \in
                {IF s.j >= arraySize THEN s
                 ELSE CHOOSE next \in
                        {IF m.res # "running" THEN m ELSE SliceLoop([m EXCEPT !.j = @ + 1]) :
                            m \in {MipLoop([s EXCEPT !.i = 0, !.w = width, !.h = height,
                                                     !.d = depth])}} :
                        TRUE :
                 s \in {state}} :
                TRUE
        \* for (p = 0; p < numberOfPlanes; ++p): every plane starts again at bitData
        PlaneLoop(state) ==
            CHOOSE end \in
                {IF s.p >= numberOfPlanes
                 THEN [s EXCEPT !.res = IF s.initData = <<>> THEN "DDS_LOADER_FAIL"
                                                             ELSE "DDS_LOADER_SUCCESS"]
                 ELSE CHOOSE next \in
                        {IF m.res # "running" THEN m ELSE PlaneLoop([m EXCEPT !.p = @ + 1]) :
                            m \in {SliceLoop([s EXCEPT !.j = 0, !.pSrcBits = 0])}} :
                        TRUE :
                 s \in {state}} :
                TRUE
    IN  PlaneLoop(FillInitDataStart(width, height, depth))

\* === Header Parser =======================================================
\* the DX10 test shared by the parser, CreateTextureFromDDS and GetAlphaMode
HasDXT10Header(hdr) ==
    BitAnd(hdr.ddspf.flags, DDS_FOURCC) # 0 /\ FourCC("D", "X", "1", "0") = hdr.ddspf.fourCC

\* what the caller of the parser holds when the parser failed: its own initial values
NoView == [res |-> "DDS_LOADER_FAIL", header |-> "nullptr", bitData |-> "nullptr", bitSize |-> 0]

\* the checks with the DX10 header recognised by its code alone
ValidateHeaderBytes_FourCCOnly(len, magic, hdr) ==
    LET dx10 == FourCC("D", "X", "1", "0") = hdr.ddspf.fourCC
    IN  IF magic # DDS_MAGIC THEN NoView
        ELSE IF hdr.size # SizeofDDS_HEADER \/ hdr.ddspf.size # SizeofDDS_PIXELFORMAT
          THEN NoView
        ELSE IF dx10 /\ len < SizeofUint32 + SizeofDDS_HEADER + SizeofDDS_HEADER_DXT10
          THEN NoView
        ELSE LET offset == SizeofUint32 + SizeofDDS_HEADER
                             + (IF dx10 THEN SizeofDDS_HEADER_DXT10 ELSE 0)
             IN  [res |-> "DDS_LOADER_SUCCESS", header |-> "hdr", bitData |-> offset,
                  bitSize |-> len - offset]

\* the checks without the test of the pixel-format size
ValidateHeaderBytes_NoPixelFormatSize(len, magic, hdr) ==
    IF magic # DDS_MAGIC THEN NoView
    ELSE IF hdr.size # SizeofDDS_HEADER THEN NoView
    ELSE IF HasDXT10Header(hdr)
            /\ len < SizeofUint32 + SizeofDDS_HEADER + SizeofDDS_HEADER_DXT10 THEN NoView
    ELSE LET offset == SizeofUint32 + SizeofDDS_HEADER
                         + (IF HasDXT10Header(hdr) THEN SizeofDDS_HEADER_DXT10 ELSE 0)
         IN  [res |-> "DDS_LOADER_SUCCESS", header |-> "hdr", bitData |-> offset,
              bitSize |-> len - offset]

\* the checks both parsers make on the bytes once they know the length
ValidateHeaderBytes(len, magic, hdr) ==
    IF magic # DDS_MAGIC THEN NoView
    ELSE IF hdr.size # SizeofDDS_HEADER \/ hdr.ddspf.size # SizeofDDS_PIXELFORMAT THEN NoView
    ELSE IF HasDXT10Header(hdr)
            /\ len < SizeofUint32 + SizeofDDS_HEADER + SizeofDDS_HEADER_DXT10 THEN NoView
    ELSE LET offset == SizeofUint32 + SizeofDDS_HEADER
                         + (IF HasDXT10Header(hdr) THEN SizeofDDS_HEADER_DXT10 ELSE 0)
         IN  [res |-> "DDS_LOADER_SUCCESS", header |-> "hdr", bitData |-> offset,
              bitSize |-> len - offset]

LoadTextureDataFromMemory(ddsDataSize, magic, hdr) ==
    IF ExceedsUint32(ddsDataSize) THEN NoView
    ELSE IF ddsDataSize < SizeofUint32 + SizeofDDS_HEADER THEN NoView
    ELSE ValidateHeaderBytes(ddsDataSize, magic, hdr)

LoadTextureDataFromFile(fileReadable, fileLen, magic, hdr) ==
    IF ~fileReadable THEN NoView
    ELSE IF fileLen < SizeofUint32 + SizeofDDS_HEADER THEN NoView
    ELSE ValidateHeaderBytes(fileLen, magic, hdr)

\* === Resource Creator ====================================================
\* the minimal guaranteed limits of CreateTextureFromDDS, or the supplied ones
EffectiveLimits(deviceLimits) ==
    IF deviceLimits.present
    THEN [maxImageArrayLayers |-> deviceLimits.maxImageArrayLayers,
          maxImageDimension1D |-> deviceLimits.maxImageDimension1D,
          maxImageDimension2D |-> deviceLimits.maxImageDimension2D,
          maxImageDimension3D |-> deviceLimits.maxImageDimension3D,
          maxImageDimensionCube |-> deviceLimits.maxImageDimensionCube]
    ELSE [maxImageArrayLayers |-> 256,
          maxImageDimension1D |-> 4096,
          maxImageDimension2D |-> 4096,
          maxImageDimension3D |-> 256,
          maxImageDimensionCube |-> 4096]

\* the locals of CreateTextureFromDDS before any header field is looked at
NoTexture ==
    [err |-> "DDS_LOADER_FAIL", width |-> 0, height |-> 0, depth |-> 0,
     imgType |-> "VK_IMAGE_TYPE_2D", arraySize |-> 1, format |-> "VK_FORMAT_UNDEFINED",
     mipCount |-> 0, imageCreateFlags |-> {}, numberOfPlanes |-> 0]

Fail(t, code) == [t EXCEPT !.err = code]

\* the DX10 branch with the format looked at before the array size
ResolveDXT10_FormatFirst(t, hdr, d3d10ext) ==
    LET arraySize == d3d10ext.arraySize
        typeless == IF IsTypelessFormat(d3d10ext.dxgiFormat)
                    THEN {"VK_IMAGE_CREATE_MUTABLE_FORMAT_BIT"} ELSE {}
        imgTypeFromResDim == D3DResourceDimensionToImageType(d3d10ext.resourceDimension)
        Branch(format, t1) ==
            IF BitsPerPixel(format) = 0 THEN Fail(t1, "DDS_LOADER_UNSUPPORTED_FORMAT")
            ELSE IF arraySize = 0 THEN Fail(t1, "DDS_LOADER_INVALID_DATA")
            ELSE CASE imgTypeFromResDim = "VK_IMAGE_TYPE_1D" ->
                        IF BitAnd(hdr.flags, DDS_HEIGHT) # 0 /\ t.height # 1
                        THEN Fail(t1, "DDS_LOADER_INVALID_DATA")
                        ELSE [t1 EXCEPT !.height = 1, !.depth = 1, !.imgType = imgTypeFromResDim]
                   [] imgTypeFromResDim = "VK_IMAGE_TYPE_2D" ->
                        LET cube == BitAnd(d3d10ext.miscFlag, RESOURCE_MISC_TEXTURECUBE) # 0
                            layers == IF cube THEN MulSixUint32(arraySize) ELSE arraySize
                        IN  [t1 EXCEPT !.arraySize = layers,
                                       !.imageCreateFlags =
                                           @ \cup (IF cube THEN {"VK_IMAGE_CREATE_CUBE_COMPATIBLE_BIT"}
                                                           ELSE {})
                                             \cup (IF layers > 1
                                                   THEN {"VK_IMAGE_CREATE_2D_ARRAY_COMPATIBLE_BIT"}
                                                   ELSE {}),
                                       !.depth = 1, !.imgType = imgTypeFromResDim]
                   [] imgTypeFromResDim = "VK_IMAGE_TYPE_3D" ->
                        IF BitAnd(hdr.flags, DDS_HEADER_FLAGS_VOLUME) = 0
                        THEN Fail(t1, "DDS_LOADER_INVALID_DATA")
                        ELSE IF arraySize > 1 THEN Fail(t1, "DDS_LOADER_UNSUPPORTED_LAYOUT")
                        ELSE [t1 EXCEPT !.imgType = imgTypeFromResDim]
                   [] OTHER -> Fail(t1, "DDS_LOADER_UNSUPPORTED_LAYOUT")
    IN  CHOOSE r \in
            {Branch(format, [t EXCEPT !.arraySize = arraySize, !.format = format,
                                      !.imageCreateFlags = @ \cup typeless]) :
                format \in {DXGIToVkFormat(d3d10ext.dxgiFormat)}} :
            TRUE

\* the DX10 branch of CreateTextureFromDDS (lines 2872-2938)
ResolveDXT10(t, hdr, d3d10ext) ==
    LET arraySize == d3d10ext.arraySize
        typeless == IF IsTypelessFormat(d3d10ext.dxgiFormat)
                    THEN {"VK_IMAGE_CREATE_MUTABLE_FORMAT_BIT"} ELSE {}
        imgTypeFromResDim == D3DResourceDimensionToImageType(d3d10ext.resourceDimension)
        Branch(format, t1) ==
            IF arraySize = 0 THEN Fail([t EXCEPT !.arraySize = 0], "DDS_LOADER_INVALID_DATA")
            ELSE IF BitsPerPixel(format) = 0 THEN Fail(t1, "DDS_LOADER_UNSUPPORTED_FORMAT")
            ELSE CASE imgTypeFromResDim = "VK_IMAGE_TYPE_1D" ->
                        IF BitAnd(hdr.flags, DDS_HEIGHT) # 0 /\ t.height # 1
                        THEN Fail(t1, "DDS_LOADER_INVALID_DATA")
                        ELSE [t1 EXCEPT !.height = 1, !.depth = 1, !.imgType = imgTypeFromResDim]
                   [] imgTypeFromResDim = "VK_IMAGE_TYPE_2D" ->
                        LET cube == BitAnd(d3d10ext.miscFlag, RESOURCE_MISC_TEXTURECUBE) # 0
                            layers == IF cube THEN MulSixUint32(arraySize) ELSE arraySize
                        IN  [t1 EXCEPT !.arraySize = layers,
                                       !.imageCreateFlags =
                                           @ \cup (IF cube THEN {"VK_IMAGE_CREATE_CUBE_COMPATIBLE_BIT"}
                                                           ELSE {})
                                             \cup (IF layers > 1
                                                   THEN {"VK_IMAGE_CREATE_2D_ARRAY_COMPATIBLE_BIT"}
                                                   ELSE {}),
                                       !.depth = 1, !.imgType = imgTypeFromResDim]
                   [] imgTypeFromResDim = "VK_IMAGE_TYPE_3D" ->
                        IF BitAnd(hdr.flags, DDS_HEADER_FLAGS_VOLUME) = 0
                        THEN Fail(t1, "DDS_LOADER_INVALID_DATA")
                        ELSE IF arraySize > 1 THEN Fail(t1, "DDS_LOADER_UNSUPPORTED_LAYOUT")
                        ELSE [t1 EXCEPT !.imgType = imgTypeFromResDim]
                   [] OTHER -> Fail(t1, "DDS_LOADER_UNSUPPORTED_LAYOUT")
    IN  CHOOSE r \in
            {Branch(format, [t EXCEPT !.arraySize = arraySize, !.format = format,
                                      !.imageCreateFlags = @ \cup typeless]) :
                format \in {DXGIToVkFormat(d3d10ext.dxgiFormat)}} :
            TRUE

\* the legacy branch with a cubemap accepted as soon as one face bit is set
ResolveLegacy_AnyFace(t, hdr) ==
    LET format == GetVkFormat(hdr.ddspf)
        t1 == [t EXCEPT !.format = format]
    IN  IF format = "VK_FORMAT_UNDEFINED" THEN Fail(t1, "DDS_LOADER_UNSUPPORTED_FORMAT")
        ELSE IF BitAnd(hdr.flags, DDS_HEADER_FLAGS_VOLUME) # 0
          THEN [t1 EXCEPT !.imgType = "VK_IMAGE_TYPE_3D"]
        ELSE IF BitAnd(hdr.caps2, DDS_CUBEMAP) # 0 THEN
            IF BitAnd(hdr.caps2, DDS_CUBEMAP_ALLFACES) = 0
            THEN Fail(t1, "DDS_LOADER_UNSUPPORTED_LAYOUT")
            ELSE [t1 EXCEPT !.arraySize = 6,
                            !.imageCreateFlags = @ \cup {"VK_IMAGE_CREATE_CUBE_COMPATIBLE_BIT"},
                            !.depth = 1, !.imgType = "VK_IMAGE_TYPE_2D"]
        ELSE [t1 EXCEPT !.depth = 1, !.imgType = "VK_IMAGE_TYPE_2D"]

\* the legacy branch with a pixel format the mapper does not know loaded as R8G8B8A8_UNORM
ResolveLegacy_FallbackFormat(t, hdr) ==
    LET Branch(format, t1) ==
            IF BitAnd(hdr.flags, DDS_HEADER_FLAGS_VOLUME) # 0
              THEN [t1 EXCEPT !.imgType = "VK_IMAGE_TYPE_3D"]
            ELSE IF BitAnd(hdr.caps2, DDS_CUBEMAP) # 0 THEN
                IF BitAnd(hdr.caps2, DDS_CUBEMAP_ALLFACES) # DDS_CUBEMAP_ALLFACES
                THEN Fail(t1, "DDS_LOADER_UNSUPPORTED_LAYOUT")
                ELSE [t1 EXCEPT !.arraySize = 6,
                                !.imageCreateFlags = @ \cup {"VK_IMAGE_CREATE_CUBE_COMPATIBLE_BIT"},
                                !.depth = 1, !.imgType = "VK_IMAGE_TYPE_2D"]
            ELSE [t1 EXCEPT !.depth = 1, !.imgType = "VK_IMAGE_TYPE_2D"]
    IN  CHOOSE r \in {Branch(format, [t EXCEPT !.format = format]) :
                        format \in {IF GetVkFormat(hdr.ddspf) = "VK_FORMAT_UNDEFINED"
                                    THEN "VK_FORMAT_R8G8B8A8_UNORM"
                                    ELSE GetVkFormat(hdr.ddspf)}} :
            TRUE

\* the legacy branch of CreateTextureFromDDS (lines 2939-2973)
ResolveLegacy(t, hdr) ==
    LET Branch(format, t1) ==
            IF format = "VK_FORMAT_UNDEFINED" THEN Fail(t1, "DDS_LOADER_UNSUPPORTED_FORMAT")
            ELSE IF BitAnd(hdr.flags, DDS_HEADER_FLAGS_VOLUME) # 0
              THEN [t1 EXCEPT !.imgType = "VK_IMAGE_TYPE_3D"]
            ELSE IF BitAnd(hdr.caps2, DDS_CUBEMAP) # 0 THEN
                IF BitAnd(hdr.caps2, DDS_CUBEMAP_ALLFACES) # DDS_CUBEMAP_ALLFACES
                THEN Fail(t1, "DDS_LOADER_UNSUPPORTED_LAYOUT")
                ELSE [t1 EXCEPT !.arraySize = 6,
                                !.imageCreateFlags = @ \cup {"VK_IMAGE_CREATE_CUBE_COMPATIBLE_BIT"},
                                !.depth = 1, !.imgType = "VK_IMAGE_TYPE_2D"]
            ELSE [t1 EXCEPT !.depth = 1, !.imgType = "VK_IMAGE_TYPE_2D"]
    IN  CHOOSE r \in {Branch(format, [t EXCEPT !.format = format]) :
                        format \in {GetVkFormat(hdr.ddspf)}} :
            TRUE

\* the switch on imgType without the test of the depth of a volume
BelowLimits_NoDepth(t, lim) ==
    CASE t.imgType = "VK_IMAGE_TYPE_1D" ->
            (t.arraySize > lim.maxImageArrayLayers) \/ (t.width > lim.maxImageDimension1D)
      [] t.imgType = "VK_IMAGE_TYPE_2D" ->
            IF "VK_IMAGE_CREATE_CUBE_COMPATIBLE_BIT" \in t.imageCreateFlags
            THEN (t.arraySize > lim.maxImageArrayLayers)
                 \/ (t.width > lim.maxImageDimensionCube)
                 \/ (t.height > lim.maxImageDimensionCube)
            ELSE (t.arraySize > lim.maxImageArrayLayers)
                 \/ (t.width > lim.maxImageDimension2D)
                 \/ (t.height > lim.maxImageDimension2D)
      [] t.imgType = "VK_IMAGE_TYPE_3D" ->
            (t.arraySize > 1)
            \/ (t.width > lim.maxImageDimension3D)
            \/ (t.height > lim.maxImageDimension3D)
      [] OTHER -> FALSE

\* the switch on imgType of CreateTextureFromDDS (lines 2983-3024): TRUE when the limits are exceeded
BelowLimits(t, lim) ==
    CASE t.imgType = "VK_IMAGE_TYPE_1D" ->
            (t.arraySize > lim.maxImageArrayLayers) \/ (t.width > lim.maxImageDimension1D)
      [] t.imgType = "VK_IMAGE_TYPE_2D" ->
            IF "VK_IMAGE_CREATE_CUBE_COMPATIBLE_BIT" \in t.imageCreateFlags
            THEN (t.arraySize > lim.maxImageArrayLayers)
                 \/ (t.width > lim.maxImageDimensionCube)
                 \/ (t.height > lim.maxImageDimensionCube)
            ELSE (t.arraySize > lim.maxImageArrayLayers)
                 \/ (t.width > lim.maxImageDimension2D)
                 \/ (t.height > lim.maxImageDimension2D)
      [] t.imgType = "VK_IMAGE_TYPE_3D" ->
            (t.arraySize > 1)
            \/ (t.width > lim.maxImageDimension3D)
            \/ (t.height > lim.maxImageDimension3D)
            \/ (t.depth > lim.maxImageDimension3D)
      [] OTHER -> FALSE

\* CreateTextureFromDDS up to the first call of FillInitData (lines 2839-3045)
ResolveTexture(hdr, d3d10ext, deviceLimits, createFlags) ==
    LET t0 == [NoTexture EXCEPT !.err = "DDS_LOADER_SUCCESS",
                                !.width = hdr.width, !.height = hdr.height, !.depth = hdr.depth,
                                !.mipCount = IF hdr.mipMapCount = 0 THEN 1 ELSE hdr.mipMapCount,
                                !.imageCreateFlags = createFlags]
        \* the checks after the two branches (lines 2975-3036)
        Checks(t, lim, numberOfPlanes) ==
            IF t.err # "DDS_LOADER_SUCCESS" THEN t
            ELSE IF t.mipCount > maxDirect3DMips THEN Fail(t, "DDS_LOADER_UNSUPPORTED_LAYOUT")
            ELSE IF t.imgType \notin {"VK_IMAGE_TYPE_1D", "VK_IMAGE_TYPE_2D", "VK_IMAGE_TYPE_3D"}
              THEN Fail(t, "DDS_LOADER_UNSUPPORTED_LAYOUT")
            ELSE IF BelowLimits(t, lim) THEN Fail(t, "DDS_LOADER_BELOW_LIMITS")
            ELSE IF numberOfPlanes = 0 THEN Fail(t, "DDS_LOADER_UNSUPPORTED_FORMAT")
            ELSE IF numberOfPlanes > 1 /\ IsDepthStencil(t.format)
              THEN Fail(t, "DDS_LOADER_UNSUPPORTED_FORMAT")
            ELSE [t EXCEPT !.numberOfPlanes = numberOfPlanes]
    IN  CHOOSE r \in
            {Checks(t, EffectiveLimits(deviceLimits), GetVkFormatPlaneCount(t.format)) :
                t \in {IF HasDXT10Header(hdr) THEN ResolveDXT10(t0, hdr, d3d10ext)
                                              ELSE ResolveLegacy(t0, hdr)}} :
            TRUE

\* the result codes the injected vkCreateImage is drawn from
VkResults ==
    {"VK_SUCCESS", "VK_ERROR_OUT_OF_HOST_MEMORY", "VK_ERROR_OUT_OF_DEVICE_MEMORY",
     "VK_ERROR_INITIALIZATION_FAILED"}

\* the switch with both out-of-memory results taken for host memory
CreateResultOf_HostMemoryOnly(vkRes) ==
    CASE vkRes = "VK_SUCCESS" -> "DDS_LOADER_SUCCESS"
      [] vkRes = "VK_ERROR_OUT_OF_HOST_MEMORY" -> "DDS_LOADER_NO_HOST_MEMORY"
      [] vkRes = "VK_ERROR_OUT_OF_DEVICE_MEMORY" -> "DDS_LOADER_NO_HOST_MEMORY"
      [] OTHER -> "DDS_LOADER_FAIL"

\* the switch of CreateTextureResource on the result of vkCreateImage (lines 2794-2807)
CreateResultOf(vkRes) ==
    CASE vkRes = "VK_SUCCESS" -> "DDS_LOADER_SUCCESS"
      [] vkRes = "VK_ERROR_OUT_OF_HOST_MEMORY" -> "DDS_LOADER_NO_HOST_MEMORY"
      [] vkRes = "VK_ERROR_OUT_OF_DEVICE_MEMORY" -> "DDS_LOADER_NO_DEVICE_MEMORY"
      [] OTHER -> "DDS_LOADER_FAIL"

\* the VkImageCreateInfo CreateTextureResource fills in (lines 2760-2782); a mipCount that
\* wrapped below 0 in size_t is cast to the uint32_t 2^32 + mipCount, which is held here as
\* the negative mipCount, the int32_t of the same bits
ImageCreateInfo(imgType, width, height, depth, mipCount, arraySize, format, createFlags, loadFlags) ==
    [flags |-> createFlags, imageType |-> imgType,
     format |-> IF BitAnd(loadFlags, DDS_LOADER_FORCE_SRGB) # 0 THEN MakeSRGB(format) ELSE format,
     width |-> width, height |-> height, depth |-> depth,
     mipLevels |-> mipCount, arrayLayers |-> arraySize]

GetAlphaMode(hdr, d3d10ext) ==
    IF BitAnd(hdr.ddspf.flags, DDS_FOURCC) # 0 THEN
        IF FourCC("D", "X", "1", "0") = hdr.ddspf.fourCC THEN
            LET mode == BitAnd(d3d10ext.miscFlags2, DDS_MISC_FLAGS2_ALPHA_MODE_MASK)
            IN  CASE mode = 1 -> "DDS_ALPHA_MODE_STRAIGHT"
                  [] mode = 2 -> "DDS_ALPHA_MODE_PREMULTIPLIED"
                  [] mode = 3 -> "DDS_ALPHA_MODE_OPAQUE"
                  [] mode = 4 -> "DDS_ALPHA_MODE_CUSTOM"
                  [] OTHER -> "DDS_ALPHA_MODE_UNKNOWN"
        ELSE IF FourCC("D", "X", "T", "2") = hdr.ddspf.fourCC
                \/ FourCC("D", "X", "T", "4") = hdr.ddspf.fourCC
          THEN "DDS_ALPHA_MODE_PREMULTIPLIED"
        ELSE "DDS_ALPHA_MODE_UNKNOWN"
    ELSE "DDS_ALPHA_MODE_UNKNOWN"

\* === The load pipeline ===================================================
VARIABLES
    in,                 \* the arguments of the call and the bytes of the file
    pc,                 \* the stage the call is at
    result,             \* the DDS_LOADER_RESULT the entry point returned
    texture,            \* *texture
    alphaMode,          \* *alphaMode
    outImageCreateInfo, \* *outImageCreateInfo
    subresources,       \* the caller's std::vector of LoadedSubresourceData
    view,               \* header, bitData and bitSize of the entry point
    tex,                \* the locals of CreateTextureFromDDS
    maxsize,            \* the maxsize local of CreateTextureFromDDS
    fill,               \* twidth, theight, tdepth, skipMip and the last result of FillInitData
    errCode,            \* the errCode local of CreateTextureFromDDS
    createCalls,        \* history: the calls of vkCreateImage, in order
    fillCalls,          \* history: the calls of FillInitData, in order
    stages              \* history: the stages that ran, in order

vars == <<in, pc, result, texture, alphaMode, outImageCreateInfo, subresources, view, tex,
          maxsize, fill, errCode, createCalls, fillCalls, stages>>

\* --- the inputs ----------------------------------------------------------
PixelFormat(flags, fourCC, bitCount, r, g, b, a) ==
    [size |-> SizeofDDS_PIXELFORMAT, flags |-> flags, fourCC |-> fourCC, RGBBitCount |-> bitCount,
     RBitMask |-> r, GBitMask |-> g, BBitMask |-> b, ABitMask |-> a]

PF_DX10 == PixelFormat(DDS_FOURCC, FourCC("D", "X", "1", "0"), 0,
                       Mask(0, 0), Mask(0, 0), Mask(0, 0), Mask(0, 0))
PF_DXT1 == PixelFormat(DDS_FOURCC, FourCC("D", "X", "T", "1"), 0,
                       Mask(0, 0), Mask(0, 0), Mask(0, 0), Mask(0, 0))
PF_DXT2 == PixelFormat(DDS_FOURCC, FourCC("D", "X", "T", "2"), 0,
                       Mask(0, 0), Mask(0, 0), Mask(0, 0), Mask(0, 0))
PF_RGBA8 == PixelFormat(DDS_RGB, 0, 32,
                        Mask(0, 255), Mask(0, 65280), Mask(255, 0), Mask(65280, 0))
PF_L8 == PixelFormat(DDS_LUMINANCE, 0, 8, Mask(0, 255), Mask(0, 0), Mask(0, 0), Mask(0, 0))
\* D3DFMT_X8R8G8B8, which the mapper rejects, and a pixel format with no family flag
PF_BGRX == PixelFormat(DDS_RGB, 0, 32, Mask(255, 0), Mask(0, 65280), Mask(0, 255), Mask(0, 0))
PF_NONE == PixelFormat(0, 0, 0, Mask(0, 0), Mask(0, 0), Mask(0, 0), Mask(0, 0))

Header(flags, extent, mips, ddspf, caps2) ==
    [size |-> SizeofDDS_HEADER, flags |-> flags, width |-> extent[1], height |-> extent[2],
     depth |-> extent[3], mipMapCount |-> mips, ddspf |-> ddspf, caps2 |-> caps2]

Ext(dxgiFormat, resourceDimension, miscFlag, arraySize, miscFlags2) ==
    [dxgiFormat |-> dxgiFormat, resourceDimension |-> resourceDimension, miscFlag |-> miscFlag,
     arraySize |-> arraySize, miscFlags2 |-> miscFlags2]

\* the bytes after a legacy header are payload; nothing reads them as a DDS_HEADER_DXT10
NoExt == Ext(0, 0, 0, 0, 0)

NoLimits ==
    [present |-> FALSE, maxImageArrayLayers |-> 0, maxImageDimension1D |-> 0,
     maxImageDimension2D |-> 0, maxImageDimension3D |-> 0, maxImageDimensionCube |-> 0]

\* a supplied VkPhysicalDeviceLimits with a different limit for every class
SmallLimits ==
    [present |-> TRUE, maxImageArrayLayers |-> SmallMaxLayers,
     maxImageDimension1D |-> 2 * SmallMaxDim, maxImageDimension2D |-> SmallMaxDim,
     maxImageDimension3D |-> SmallMaxDim \div 2, maxImageDimensionCube |-> SmallMaxDim - 2]

\* the limits of a desktop device
DesktopLimits ==
    [present |-> TRUE, maxImageArrayLayers |-> 2048,
     maxImageDimension1D |-> 16384, maxImageDimension2D |-> 16384,
     maxImageDimension3D |-> 2048, maxImageDimensionCube |-> 16384]

\* extents that fit every class of SmallLimits, and extents that exceed one limit or the other
FitExtents == {<<4, 4, 1>>, <<1, 1, 1>>, <<5, 3, 2>>, <<4, 4, 4>>, <<0, 4, 1>>, <<4, 0, 0>>}

OverExtents ==
    {<<SmallMaxDim + 1, 4, 1>>, <<4, SmallMaxDim + 1, 1>>, <<4, 4, SmallMaxDim + 1>>,
     <<2 * SmallMaxDim + 1, 1, 1>>, <<SmallMaxDim - 1, 4, 1>>, <<4, SmallMaxDim - 1, 1>>,
     <<3, 3, (SmallMaxDim \div 2) + 1>>, <<4097, 1, 1>>, <<4, 4097, 1>>, <<4, 4, 257>>}

\* resourceDimension, miscFlag and header flags of the DX10 headers
DX10Shapes ==
    {<<2, 0, 0>>, <<2, 0, DDS_HEIGHT>>, <<3, 0, 0>>, <<3, RESOURCE_MISC_TEXTURECUBE, 0>>,
     <<4, 0, DDS_HEADER_FLAGS_VOLUME>>, <<4, 0, 0>>, <<0, 0, 0>>}

\* DXGI_FORMAT_UNKNOWN, R8G8B8A8_TYPELESS, R8G8B8A8_UNORM, D24_UNORM_S8_UINT, BC1_UNORM, NV12
DX10Formats == {0, 27, 28, 45, 71, 103}

\* array sizes under and over the layer limits, which a cube multiplies by 6;
\* 715827883 * 6 = 2^32 + 2
ArraySizes(shape) ==
    IF shape[2] = RESOURCE_MISC_TEXTURECUBE THEN {1, 3, 257, 715827883}
    ELSE {1, 3, SmallMaxLayers + 1, 257, 715827883}

DX10Header(shape, extent, mips) == Header(shape[3], extent, mips, PF_DX10, 0)

LegacyCaps2 ==
    {0, DDS_CUBEMAP, DDS_CUBEMAP_ALLFACES,
     BitOr(DDS_CUBEMAP_POSITIVEX, BitOr(DDS_CUBEMAP_NEGATIVEX,
     BitOr(DDS_CUBEMAP_POSITIVEY, BitOr(DDS_CUBEMAP_NEGATIVEY, DDS_CUBEMAP_POSITIVEZ))))}

LegacyFormats == {PF_DXT1, PF_DXT2, PF_RGBA8, PF_L8, PF_BGRX, PF_NONE}

\* the arguments of a call that passes the argument check, around one header
Call(hdr, ext) ==
    [entry |-> "Memory", vkDevice |-> TRUE, source |-> TRUE, texturePtr |-> TRUE,
     alphaPtr |-> TRUE, fileReadable |-> TRUE,
     ddsDataSize |-> 0, magic |-> DDS_MAGIC, hdr |-> hdr, d3d10ext |-> ext,
     maxsize |-> 0, deviceLimits |-> NoLimits, createFlags |-> {}, loadFlags |-> 0,
     vkCreateImage |-> TRUE, subresources0 |-> <<>>]

\* bytes of magic and headers in front of the payload
HeaderBytes(hdr) ==
    SizeofUint32 + SizeofDDS_HEADER + (IF HasDXT10Header(hdr) THEN SizeofDDS_HEADER_DXT10 ELSE 0)

\* the bytes one plane's walk over all slices and mips steps over
RECURSIVE MipChainBytes(_, _, _, _, _, _, _)
MipChainBytes(w, h, d, mips, format, aspectPlane, acc) ==
    IF mips = 0 THEN acc
    ELSE CHOOSE total \in
            {MipChainBytes(w1, h1, d1, mips - 1, format, aspectPlane, acc1) :
                w1 \in {NextMipExtent(w)}, h1 \in {NextMipExtent(h)}, d1 \in {NextMipExtent(d)},
                acc1 \in {acc + GetSurfaceInfo(w, h, format, aspectPlane).numBytes * d}} :
            TRUE

PlaneBytes(t, p) ==
    t.arraySize * MipChainBytes(t.width, t.height, t.depth, t.mipCount, t.format,
                                AspectPlane(p, t.numberOfPlanes, t.format), 0)

\* the payload length that holds the data of every mip of every slice of every plane's walk
RequiredBytes(t) ==
    LET sizes == {PlaneBytes(t, p) : p \in 0 .. (t.numberOfPlanes - 1)}
    IN  CHOOSE n \in sizes : \A m \in sizes : m <= n

\* payload lengths for a header: exact, one byte short, cut inside the second mip, with spare bytes, none
PayloadSizes(c) ==
    LET Sizes(t) ==
            IF t.err # "DDS_LOADER_SUCCESS" THEN {0}
            ELSE UNION {{need, need + ExtraBytes, Max(need - 1, 0), Min(first + 1, need), 0} :
                          need \in {RequiredBytes(t)},
                          first \in {MipChainBytes(t.width, t.height, t.depth, 1, t.format,
                                        AspectPlane(0, t.numberOfPlanes, t.format), 0)}}
    IN  UNION {Sizes(t) :
                 t \in {ResolveTexture(c.hdr, c.d3d10ext, c.deviceLimits, c.createFlags)}}

WithPayload(c, n) == [c EXCEPT !.ddsDataSize = HeaderBytes(c.hdr) + n]

\* the payload a header needs, when CreateTextureFromDDS gets as far as the enumeration
NeededPayload(c) ==
    CHOOSE n \in {IF t.err = "DDS_LOADER_SUCCESS" THEN RequiredBytes(t) ELSE 0 :
                    t \in {ResolveTexture(c.hdr, c.d3d10ext, c.deviceLimits, c.createFlags)}} :
        TRUE

\* headers of every shape and extent, under and over the limits of every class
LimitHeaders ==
    UNION {{<<DX10Header(s, e, 1), Ext(28, s[1], s[2], a, 0)>> :
               e \in FitExtents \cup OverExtents, a \in ArraySizes(s)} : s \in DX10Shapes}
    \cup
    {<<Header(fl, e, 1, pf, c2), NoExt>> :
        fl \in {0, DDS_HEADER_FLAGS_VOLUME}, e \in FitExtents \cup OverExtents,
        pf \in {PF_DXT1, PF_RGBA8}, c2 \in LegacyCaps2}

\* headers of every shape with every format, mip count and array size, around three extents
FieldHeaders ==
    LET extents == {<<4, 4, 1>>, <<0, 4, 1>>, <<4, 4, SmallMaxDim + 1>>}
    IN  {<<DX10Header(s, e, m), Ext(f, s[1], s[2], a, 0)>> :
            s \in DX10Shapes, e \in extents, m \in {0, 1, 16}, f \in DX10Formats,
            a \in {0, 1, 2}}
        \cup
        {<<Header(fl, e, m, pf, c2), NoExt>> :
            fl \in {0, DDS_HEADER_FLAGS_VOLUME}, e \in extents, m \in {0, 1, 16},
            pf \in LegacyFormats, c2 \in LegacyCaps2}

\* calls with every header shape and just enough payload
HeaderCalls ==
    LET calls == {[Call(h[1], h[2]) EXCEPT !.deviceLimits = l] :
                    h \in LimitHeaders, l \in {NoLimits, SmallLimits}}
                 \cup
                 {[Call(h[1], h[2]) EXCEPT !.deviceLimits = SmallLimits] : h \in FieldHeaders}
    IN  {WithPayload(c, NeededPayload(c)) : c \in calls}

\* headers that load under SmallLimits: 1D, 2D, 2D array, cube, volume; one and two planes
WalkHeaders ==
    LET extents == {<<4, 4, 1>>, <<5, 3, 2>>, <<4, 4, 4>>, <<0, 4, 1>>, <<SmallMaxDim + 1, 1, 1>>}
        mips == {1, MaxMips}
    IN  {<<DX10Header(s, e, m), Ext(f, s[1], s[2], a, a)>> :
            s \in {<<2, 0, 0>>, <<3, 0, 0>>, <<3, RESOURCE_MISC_TEXTURECUBE, 0>>,
                   <<4, 0, DDS_HEADER_FLAGS_VOLUME>>},
            e \in extents, m \in mips, f \in {28, 45, 71, 103}, a \in {1, 2}}
        \cup
        {<<Header(fl, e, m, pf, c2), NoExt>> :
            fl \in {0, DDS_HEADER_FLAGS_VOLUME}, e \in extents, m \in mips,
            pf \in {PF_DXT1, PF_DXT2, PF_L8}, c2 \in {0, DDS_CUBEMAP_ALLFACES}}

\* the walk of the mip chains under every cap and load flag, with just enough payload
WalkCalls ==
    LET calls == {[Call(h[1], h[2]) EXCEPT !.deviceLimits = SmallLimits, !.maxsize = k[1],
                                           !.loadFlags = k[2]] :
                    h \in {x \in WalkHeaders : x[1].mipMapCount = MaxMips},
                    k \in {<<0, DDS_LOADER_MIP_RESERVE>>, <<2, DDS_LOADER_MIP_RESERVE>>,
                           <<4, 0>>, <<4, DDS_LOADER_MIP_RESERVE>>}}
    IN  {WithPayload(c, NeededPayload(c)) : c \in calls}

\* the walk over payloads of every length
PayloadCalls ==
    LET calls == {[Call(h[1], h[2]) EXCEPT !.deviceLimits = SmallLimits, !.maxsize = ms] :
                    h \in WalkHeaders, ms \in {0, 2}}
    IN  UNION {{WithPayload(c, n) : n \in PayloadSizes(c)} : c \in calls}

\* one header, every argument: null pointers, either entry point, a collection that is not
\* empty, an unreadable file, creation flags, no creation function
ArgumentCalls ==
    LET base == WithPayload(Call(Header(0, <<4, 4, 1>>, 1, PF_DXT2, 0), NoExt), 16)
    IN  {[base EXCEPT !.entry = e, !.vkDevice = dev, !.source = src, !.texturePtr = tp,
                      !.alphaPtr = ap, !.fileReadable = fr, !.subresources0 = s0,
                      !.vkCreateImage = fn] :
            e \in {"Memory", "File"}, dev \in BOOLEAN, src \in BOOLEAN, tp \in BOOLEAN,
            ap \in BOOLEAN, fr \in BOOLEAN, s0 \in {<<>>, <<"stale">>}, fn \in BOOLEAN}

\* a collection that is not empty, creation flags and load flags around headers of every fate
FlagCalls ==
    {[c EXCEPT !.subresources0 = <<"stale">>, !.createFlags = cf, !.loadFlags = lf, !.entry = e] :
        c \in {x \in HeaderCalls : x.hdr.mipMapCount = 1 /\ x.hdr.depth = 1
                                   /\ x.deviceLimits = SmallLimits
                                   /\ x.d3d10ext.arraySize \in {0, 1, 3}
                                   /\ x.d3d10ext.dxgiFormat \in {0, 28}
                                   /\ x.hdr.ddspf \in {PF_DX10, PF_DXT1, PF_NONE}},
        cf \in {{}, {"VK_IMAGE_CREATE_CUBE_COMPATIBLE_BIT"}},
        lf \in {0, DDS_LOADER_FORCE_SRGB}, e \in {"Memory", "File"}}

\* buffers of every length around the two header sizes, with every defect of the fixed fields
ParseCalls ==
    {[Call([Header(0, <<4, 4, 1>>, 1, pf, 0) EXCEPT !.size = hs, !.ddspf.size = ps],
           Ext(71, 3, 0, 1, 0))
        EXCEPT !.ddsDataSize = n, !.magic = mg, !.entry = e, !.subresources0 = s0] :
        pf \in {PF_DX10, PF_DXT1,
                \* the FourCC of DX10 without the FourCC flag
                [PF_DX10 EXCEPT !.flags = DDS_RGB]},
        hs \in {SizeofDDS_HEADER, SizeofDDS_HEADER - 1, 0},
        ps \in {SizeofDDS_PIXELFORMAT, SizeofDDS_PIXELFORMAT + 1},
        n \in {0, 3, 127, 128, 136, 147, 148, 156, 160},
        mg \in {DDS_MAGIC, DDS_MAGIC + 1}, e \in {"Memory", "File"},
        s0 \in {<<>>, <<"stale">>}}

\* a 16384 x 16384 texture of a 128-bit format: one slice is 2^32 bytes
HugeCalls ==
    {[Call(DX10Header(<<3, 0, 0>>, <<16384, 16384, 1>>, m), Ext(2, 3, 0, 1, 0))
        EXCEPT !.deviceLimits = DesktopLimits,
               !.ddsDataSize = SizeofUint32 + SizeofDDS_HEADER + SizeofDDS_HEADER_DXT10 + n] :
        m \in {1, 2}, n \in {0, 1024}}

\* every DXGI_FORMAT code of DXGIToVkFormat's switch, and two codes past it, on a 4 x 4 texture
FormatCalls ==
    LET calls == {[Call(DX10Header(<<3, 0, 0>>, <<4, 4, 1>>, 1), Ext(f, 3, 0, a, 0))
                     EXCEPT !.deviceLimits = SmallLimits] :
                    f \in 0 .. 134, a \in {0, 1}}
    IN  {WithPayload(c, NeededPayload(c)) : c \in calls}

\* a 64 x 64 texture under no cap and under caps below its smallest mip, at it and above it,
\* with and without a creation function, with its payload and with none
CapCalls ==
    LET calls == {[Call(DX10Header(<<3, 0, 0>>, <<64, 64, 1>>, m), Ext(f, 3, 0, a, 0))
                     EXCEPT !.maxsize = ms, !.vkCreateImage = fn] :
                    m \in {2, MaxMips}, f \in {28, 71, 103}, a \in {1, 2},
                    ms \in {0, 1, 16, 32}, fn \in BOOLEAN}
    IN  {WithPayload(c, NeededPayload(c)) : c \in calls}
        \cup {WithPayload(c, 0) : c \in {x \in calls : x.vkCreateImage}}

\* volumes deeper than they are wide, whose depth alone decides which mips a cap skips
DeepVolumeCalls ==
    LET calls == {[Call(DX10Header(<<4, 0, DDS_HEADER_FLAGS_VOLUME>>, e, MaxMips),
                        Ext(28, 4, 0, 1, 0))
                     EXCEPT !.deviceLimits = SmallLimits, !.maxsize = ms, !.loadFlags = lf] :
                    e \in {<<1, 1, 4>>, <<2, 1, 4>>}, ms \in {0, 1, 2},
                    lf \in {0, DDS_LOADER_MIP_RESERVE}}
    IN  {WithPayload(c, NeededPayload(c)) : c \in calls}

Inputs == HeaderCalls \cup WalkCalls \cup PayloadCalls \cup ArgumentCalls \cup FlagCalls
            \cup ParseCalls \cup HugeCalls \cup FormatCalls \cup CapCalls
            \cup DeepVolumeCalls

\* --- the stages ----------------------------------------------------------
NoFill == [res |-> "none", skipMip |-> 0, twidth |-> 0, theight |-> 0, tdepth |-> 0]

Init ==
    /\ in \in Inputs
    /\ pc = "call"
    /\ result = "none"
    /\ texture = "stale"
    /\ alphaMode = "stale"
    /\ outImageCreateInfo = "stale"
    /\ subresources = in.subresources0
    /\ view = [NoView EXCEPT !.res = "none"]
    /\ tex = [NoTexture EXCEPT !.err = "none"]
    /\ maxsize = in.maxsize
    /\ fill = NoFill
    /\ errCode = "none"
    /\ createCalls = <<>>
    /\ fillCalls = <<>>
    /\ stages = <<>>

\* return from the entry point with the given result
Return(code) ==
    /\ result' = code
    /\ pc' = "done"

\* LoadDDSTextureFromMemoryEx, lines 3293-3309, and LoadDDSTextureFromFileEx, lines 3388-3404:
\* reset the outputs, check the arguments
Enter ==
    /\ pc = "call"
    /\ texture' = IF in.texturePtr THEN "nullptr" ELSE texture
    /\ alphaMode' = IF in.alphaPtr THEN "DDS_ALPHA_MODE_UNKNOWN" ELSE alphaMode
    /\ outImageCreateInfo' = "zero"
    /\ stages' = Append(stages, "Enter")
    /\ IF ~in.vkDevice \/ ~in.source \/ ~in.texturePtr
       THEN Return("DDS_LOADER_INVALID_ARG")
       ELSE pc' = "parse" /\ UNCHANGED result
    /\ UNCHANGED <<in, subresources, view, tex, maxsize, fill, errCode, createCalls, fillCalls>>

\* the call of LoadTextureDataFromMemory or LoadTextureDataFromFile and the test of its result
\* (lines 3311-3325, 3406-3419)
ParseHeader ==
    /\ pc = "parse"
    /\ \E v \in {IF in.entry = "Memory"
                   THEN LoadTextureDataFromMemory(in.ddsDataSize, in.magic, in.hdr)
                   ELSE LoadTextureDataFromFile(in.fileReadable, in.ddsDataSize, in.magic,
                                                in.hdr)} :
           /\ view' = v
           /\ IF v.res # "DDS_LOADER_SUCCESS"
              THEN Return(v.res)
              ELSE pc' = "resolve" /\ UNCHANGED result
    /\ stages' = Append(stages, "ParseHeader")
    /\ UNCHANGED <<in, texture, alphaMode, outImageCreateInfo, subresources, tex, maxsize, fill,
                   errCode, createCalls, fillCalls>>

\* CreateTextureFromDDS up to the call of FillInitData (lines 2839-3045); a failure returns at
\* once, through the entry point
ResolveFormat ==
    /\ pc = "resolve"
    /\ \E t \in {ResolveTexture(in.hdr, in.d3d10ext, in.deviceLimits, in.createFlags)} :
           /\ tex' = t
           /\ IF t.err # "DDS_LOADER_SUCCESS"
              THEN Return(t.err)
              ELSE pc' = "enumerate" /\ UNCHANGED result
    /\ stages' = Append(stages, "ResolveFormat")
    /\ UNCHANGED <<in, texture, alphaMode, outImageCreateInfo, subresources, view, maxsize, fill,
                   errCode, createCalls, fillCalls>>

\* one call of FillInitData with the current cap: it clears and fills the caller's vector
CallFillInitData(cap) ==
    \E f \in {FillInitData(tex.width, tex.height, tex.depth, tex.mipCount, tex.arraySize,
                           tex.numberOfPlanes, tex.format, cap, view.bitSize)} :
        /\ subresources' = f.initData
        /\ fill' = [res |-> f.res, skipMip |-> f.skipMip, twidth |-> f.twidth,
                    theight |-> f.theight, tdepth |-> f.tdepth]
        /\ errCode' = f.res
        /\ fillCalls' = Append(fillCalls, [maxsize |-> cap, res |-> f.res, skipMip |-> f.skipMip,
                                           initData |-> f.initData])

\* the first enumeration followed by the creation whatever FillInitData returned
Enumerate_IgnoresResult ==
    /\ pc = "enumerate"
    /\ CallFillInitData(maxsize)
    /\ pc' = "create"
    /\ stages' = Append(stages, "Enumerate")
    /\ UNCHANGED <<in, result, texture, alphaMode, outImageCreateInfo, view, tex, maxsize,
                   createCalls>>

\* the first enumeration (lines 3047-3056)
Enumerate ==
    /\ pc = "enumerate"
    /\ CallFillInitData(maxsize)
    /\ pc' = IF errCode' = "DDS_LOADER_SUCCESS" THEN "create" ELSE "return"
    /\ stages' = Append(stages, "Enumerate")
    /\ UNCHANGED <<in, result, texture, alphaMode, outImageCreateInfo, view, tex, maxsize,
                   createCalls>>

\* CreateTextureResource (lines 2739-2822) with the result vkRes of the injected function,
\* which writes the handle only when it succeeds
CreateTextureResource(mipCount, vkRes) ==
    LET info == ImageCreateInfo(tex.imgType, fill.twidth, fill.theight, fill.tdepth, mipCount,
                                tex.arraySize, tex.format, tex.imageCreateFlags, in.loadFlags)
    IN  IF ~in.vkDevice THEN
            /\ errCode' = "DDS_LOADER_BAD_POINTER"
            /\ UNCHANGED <<outImageCreateInfo, texture, createCalls>>
        ELSE
            /\ outImageCreateInfo' = info
            /\ IF in.vkCreateImage
               THEN /\ errCode' = CreateResultOf(vkRes)
                    /\ texture' = IF vkRes = "VK_SUCCESS" THEN "image" ELSE texture
                    /\ createCalls' = Append(createCalls, [info |-> info, vkRes |-> vkRes])
               ELSE /\ errCode' = "DDS_LOADER_NO_FUNCTION"
                    /\ UNCHANGED <<texture, createCalls>>

\* the first creation with the fallback taken under a cap of the caller as well
Create_RetryUnderCap ==
    /\ pc = "create"
    /\ \E vkRes \in VkResults :
         LET reservedMips ==
                 IF BitAnd(in.loadFlags, DDS_LOADER_MIP_RESERVE) # 0
                 THEN Min(maxDirect3DMips, CountMips(tex.width, tex.height))
                 ELSE tex.mipCount
         IN  CreateTextureResource(reservedMips - fill.skipMip, vkRes)
    /\ pc' = IF errCode' # "DDS_LOADER_SUCCESS" /\ tex.mipCount > 1
             THEN "retry" ELSE "return"
    /\ stages' = Append(stages, "Create")
    /\ UNCHANGED <<in, result, alphaMode, subresources, view, tex, maxsize, fill, fillCalls>>

\* the first creation (lines 3056-3068)
Create ==
    /\ pc = "create"
    /\ \E vkRes \in VkResults :
         LET reservedMips ==
                 IF BitAnd(in.loadFlags, DDS_LOADER_MIP_RESERVE) # 0
                 THEN Min(maxDirect3DMips, CountMips(tex.width, tex.height))
                 ELSE tex.mipCount
         IN  CreateTextureResource(reservedMips - fill.skipMip, vkRes)
    /\ pc' = IF errCode' # "DDS_LOADER_SUCCESS" /\ maxsize = 0 /\ tex.mipCount > 1
             THEN "retry" ELSE "return"
    /\ stages' = Append(stages, "Create")
    /\ UNCHANGED <<in, result, alphaMode, subresources, view, tex, maxsize, fill, fillCalls>>

\* the fallback with maxImageDimension3D as the cap of every image type
RetryEnumerate_CapIs3D ==
    /\ pc = "retry"
    /\ LET lim == EffectiveLimits(in.deviceLimits)
           cap == lim.maxImageDimension3D
       IN  /\ maxsize' = cap
           /\ CallFillInitData(cap)
    /\ pc' = IF errCode' = "DDS_LOADER_SUCCESS" THEN "recreate" ELSE "return"
    /\ stages' = Append(stages, "RetryEnumerate")
    /\ UNCHANGED <<in, result, texture, alphaMode, outImageCreateInfo, view, tex, createCalls>>

\* the fallback: enumerate again under the device limit (lines 3068-3081)
RetryEnumerate ==
    /\ pc = "retry"
    /\ LET lim == EffectiveLimits(in.deviceLimits)
           cap == IF tex.imgType = "VK_IMAGE_TYPE_3D" THEN lim.maxImageDimension3D
                  ELSE lim.maxImageDimension2D
       IN  /\ maxsize' = cap
           /\ CallFillInitData(cap)
    /\ pc' = IF errCode' = "DDS_LOADER_SUCCESS" THEN "recreate" ELSE "return"
    /\ stages' = Append(stages, "RetryEnumerate")
    /\ UNCHANGED <<in, result, texture, alphaMode, outImageCreateInfo, view, tex, createCalls>>

\* the second creation (lines 3081-3085)
RetryCreate ==
    /\ pc = "recreate"
    /\ \E vkRes \in VkResults : CreateTextureResource(tex.mipCount - fill.skipMip, vkRes)
    /\ pc' = "return"
    /\ stages' = Append(stages, "RetryCreate")
    /\ UNCHANGED <<in, result, alphaMode, subresources, view, tex, maxsize, fill, fillCalls>>

\* the end of the call without the clearing of the descriptors of a failed load
Finish_KeepDescriptors ==
    /\ pc = "return"
    /\ alphaMode' = IF errCode = "DDS_LOADER_SUCCESS" /\ in.alphaPtr
                    THEN GetAlphaMode(in.hdr, in.d3d10ext) ELSE alphaMode
    /\ Return(errCode)
    /\ stages' = Append(stages, "Finish")
    /\ UNCHANGED <<in, texture, outImageCreateInfo, subresources, view, tex, maxsize, fill,
                   errCode, createCalls, fillCalls>>

\* the end of the call with the alpha mode written whatever the result
Finish_AlphaAlways ==
    /\ pc = "return"
    /\ subresources' = IF errCode # "DDS_LOADER_SUCCESS" THEN <<>> ELSE subresources
    /\ alphaMode' = IF in.alphaPtr THEN GetAlphaMode(in.hdr, in.d3d10ext) ELSE alphaMode
    /\ Return(errCode)
    /\ stages' = Append(stages, "Finish")
    /\ UNCHANGED <<in, texture, outImageCreateInfo, view, tex, maxsize, fill, errCode,
                   createCalls, fillCalls>>

\* the end of CreateTextureFromDDS (lines 3089-3094) and of the entry point (lines 3331-3342,
\* 3427-3445)
Finish ==
    /\ pc = "return"
    /\ subresources' = IF errCode # "DDS_LOADER_SUCCESS" THEN <<>> ELSE subresources
    /\ alphaMode' = IF errCode = "DDS_LOADER_SUCCESS" /\ in.alphaPtr
                    THEN GetAlphaMode(in.hdr, in.d3d10ext) ELSE alphaMode
    /\ Return(errCode)
    /\ stages' = Append(stages, "Finish")
    /\ UNCHANGED <<in, texture, outImageCreateInfo, view, tex, maxsize, fill, errCode,
                   createCalls, fillCalls>>

Next ==
    \/ Enter
    \/ ParseHeader
    \/ ResolveFormat
    \/ Enumerate
    \/ Create
    \/ RetryEnumerate
    \/ RetryCreate
    \/ Finish

Spec == Init /\ [][Next]_vars


\* === Properties ==========================================================
\* the call has returned
Returned == pc = "done"

Failed == Returned /\ result # "DDS_LOADER_SUCCESS"

\* C1: whenever either entry point returns a result other than DDS_LOADER_SUCCESS, the caller's
\* subresources collection is empty, whatever it held before the call
C1_SubresourcesEmptyOnFailure == Failed => subresources = <<>>

\* C2: the entry point first resets *texture to null and *alphaMode to DDS_ALPHA_MODE_UNKNOWN;
\* on every failure return the caller sees the null handle and DDS_ALPHA_MODE_UNKNOWN, and the
\* alpha mode of the header is written only on success
C2_HandleAndAlphaReset ==
    /\ (pc # "call" /\ in.texturePtr /\ result # "DDS_LOADER_SUCCESS")
          => (texture = "nullptr" \/ (pc = "return" /\ errCode = "DDS_LOADER_SUCCESS"))
    /\ (pc # "call" /\ in.alphaPtr /\ result # "DDS_LOADER_SUCCESS")
          => alphaMode = "DDS_ALPHA_MODE_UNKNOWN"
    /\ (Returned /\ result = "DDS_LOADER_SUCCESS" /\ in.alphaPtr)
          => alphaMode = GetAlphaMode(in.hdr, in.d3d10ext)

\* a load of a header with premultiplied alpha failed after the header was parsed
C2_Witness ==
    /\ Failed /\ in.texturePtr /\ in.alphaPtr
    /\ view.res = "DDS_LOADER_SUCCESS"
    /\ GetAlphaMode(in.hdr, in.d3d10ext) = "DDS_ALPHA_MODE_PREMULTIPLIED"
    /\ texture = "nullptr" /\ alphaMode = "DDS_ALPHA_MODE_UNKNOWN"

\* C3: whenever FillInitData returns DDS_LOADER_SUCCESS, the byte range
\* [PData - bitData, PData - bitData + DataByteSize) of every descriptor lies inside [0, bitSize]
C3_DescriptorsInsidePayload ==
    \A k \in DOMAIN fillCalls :
        fillCalls[k].res = "DDS_LOADER_SUCCESS" =>
            \A n \in DOMAIN fillCalls[k].initData :
                LET r == fillCalls[k].initData[n]
                IN  /\ 0 <= r.PData
                    /\ 0 <= r.DataByteSize
                    /\ r.PData + r.DataByteSize <= view.bitSize

\* a walk of several mips succeeded and its last descriptor ends with the last byte of the payload
C3_Witness ==
    \E k \in DOMAIN fillCalls :
        /\ fillCalls[k].res = "DDS_LOADER_SUCCESS"
        /\ Len(fillCalls[k].initData) > 2
        /\ \E n \in DOMAIN fillCalls[k].initData :
              LET r == fillCalls[k].initData[n]
              IN  r.PData > 0 /\ r.DataByteSize > 0 /\ r.PData + r.DataByteSize = view.bitSize

\* the header announces a DDS_HEADER_DXT10: the FOURCC flag and the code 'DX10'
SignalsDX10 == (in.hdr.ddspf.flags \div 4) % 2 = 1 /\ in.hdr.ddspf.fourCC = 808540228

\* CreateTextureFromDDS was entered: the arguments and the header passed
Parsed == view.res = "DDS_LOADER_SUCCESS"

\* a slice of the first mip level of some plane is larger than UINT32_MAX bytes
HugeSlice ==
    \E p \in 0 .. (tex.numberOfPlanes - 1) :
        GetSurfaceInfo(tex.width, tex.height, tex.format,
                       AspectPlane(p, tex.numberOfPlanes, tex.format)).numBytes = AboveUint32

\* the enumeration ran over a payload that ends before the data of some mip of some slice
Truncated == fillCalls # <<>> /\ (HugeSlice \/ view.bitSize < RequiredBytes(tex))

\* C4 as stated: a payload that ends before the data of some mip of some slice makes the
\* load return DDS_LOADER_UNEXPECTED_EOF with no descriptors and without a call of vkCreateImage
C4_TruncatedIsUnexpectedEof ==
    (Returned /\ Truncated) =>
        /\ result = "DDS_LOADER_UNEXPECTED_EOF"
        /\ subresources = <<>>
        /\ createCalls = <<>>

\* C4, amended: a payload that ends before the data of some mip of some slice makes the
\* enumeration fail with DDS_LOADER_UNEXPECTED_EOF, or with DDS_LOADER_ARITHMETIC_OVERFLOW when
\* a slice is larger than UINT32_MAX bytes; the load returns that result with no descriptors
\* and vkCreateImage is not called
C4_TruncatedFails ==
    (Returned /\ Truncated) =>
        /\ \/ result = "DDS_LOADER_UNEXPECTED_EOF"
           \/ result = "DDS_LOADER_ARITHMETIC_OVERFLOW" /\ HugeSlice
        /\ Len(fillCalls) = 1 /\ fillCalls[1].res = result
        /\ subresources = <<>>
        /\ createCalls = <<>>

\* the payload ended inside the second mip: the walk had emitted descriptors, the caller got none
C4_Witness ==
    /\ Returned /\ Truncated /\ ~HugeSlice
    /\ result = "DDS_LOADER_UNEXPECTED_EOF"
    /\ tex.mipCount > 1
    /\ Len(fillCalls[1].initData) > 1
    /\ view.bitSize > fillCalls[1].initData[1].DataByteSize
    /\ subresources = <<>>

\* C5: for every buffer LoadTextureDataFromMemory accepts, (bitData - ddsData) + bitSize equals
\* ddsDataSize, and bitData - ddsData is 4 + sizeof(DDS_HEADER), plus sizeof(DDS_HEADER_DXT10)
\* exactly when the FOURCC flag is set and the code is 'DX10'
C5_HeadersPlusPayload ==
    (in.entry = "Memory" /\ Parsed) =>
        /\ view.bitData + view.bitSize = in.ddsDataSize
        /\ view.bitData = SizeofUint32 + SizeofDDS_HEADER
                            + (IF SignalsDX10 THEN SizeofDDS_HEADER_DXT10 ELSE 0)

\* a buffer with the code 'DX10' and no FOURCC flag was accepted with payload after the header
C5_Witness ==
    /\ in.entry = "Memory" /\ Parsed
    /\ in.hdr.ddspf.fourCC = 808540228 /\ ~SignalsDX10
    /\ view.bitSize > 0

\* the buffer has one of the defects LoadTextureDataFromMemory rejects
DefectiveBuffer ==
    \/ in.ddsDataSize < SizeofUint32 + SizeofDDS_HEADER
    \/ in.magic # 542327876
    \/ in.hdr.size # SizeofDDS_HEADER
    \/ in.hdr.ddspf.size # SizeofDDS_PIXELFORMAT
    \/ SignalsDX10 /\ in.ddsDataSize < SizeofUint32 + SizeofDDS_HEADER + SizeofDDS_HEADER_DXT10

\* C6: LoadTextureDataFromMemory fails, with bitSize left at 0 and no header, for every buffer
\* that is too short, has another magic number, declares another header or pixel-format size,
\* or announces the DX10 header and is too short for it
C6_DefectiveBufferRejected ==
    (in.entry = "Memory" /\ view.res # "none" /\ DefectiveBuffer) =>
        /\ view.res \in DDS_LOADER_RESULT \ {"DDS_LOADER_SUCCESS"}
        /\ view.bitSize = 0
        /\ view.header = "nullptr"

\* a buffer that announces the DX10 header and ends inside it was rejected
C6_Witness ==
    /\ in.entry = "Memory" /\ view.res = "DDS_LOADER_FAIL"
    /\ in.magic = 542327876 /\ in.hdr.size = SizeofDDS_HEADER
    /\ in.hdr.ddspf.size = SizeofDDS_PIXELFORMAT
    /\ SignalsDX10
    /\ in.ddsDataSize >= SizeofUint32 + SizeofDDS_HEADER
    /\ in.ddsDataSize < SizeofUint32 + SizeofDDS_HEADER + SizeofDDS_HEADER_DXT10

\* the place of a stage in the pipeline
StageRank(stage) ==
    CASE stage = "Enter" -> 0
      [] stage = "ParseHeader" -> 1
      [] stage = "ResolveFormat" -> 2
      [] stage = "Enumerate" -> 3
      [] stage = "Create" -> 4
      [] stage = "RetryEnumerate" -> 5
      [] stage = "RetryCreate" -> 6
      [] stage = "Finish" -> 7

\* C7: the stages run in the order header validation, format resolution, enumeration, creation
\* (with its fallback), none is skipped and none runs after an earlier one failed; vkCreateImage
\* is called only after the header was validated, a format with bits per pixel and planes was
\* resolved, the mip-count and limit checks passed and the FillInitData before it succeeded
C7_StagesInOrder ==
    /\ \A k \in DOMAIN stages :
          /\ k > 1 => StageRank(stages[k - 1]) < StageRank(stages[k])
          /\ StageRank(stages[k]) \in 1 .. 6 =>
                (k > 1 /\ StageRank(stages[k - 1]) = StageRank(stages[k]) - 1)
    /\ (view.res \notin {"none", "DDS_LOADER_SUCCESS"}) =>
          (tex.err = "none" /\ fillCalls = <<>> /\ createCalls = <<>>)
    /\ (tex.err \notin {"none", "DDS_LOADER_SUCCESS"}) =>
          (fillCalls = <<>> /\ createCalls = <<>>)
    /\ fillCalls # <<>> =>
          /\ Parsed /\ tex.err = "DDS_LOADER_SUCCESS"
          /\ (Len(fillCalls) > 1 => fillCalls[1].res = "DDS_LOADER_SUCCESS")
    /\ createCalls # <<>> =>
          /\ Parsed /\ tex.err = "DDS_LOADER_SUCCESS"
          /\ BitsPerPixel(tex.format) # 0
          /\ GetVkFormatPlaneCount(tex.format) # 0
          /\ tex.mipCount <= 15
          /\ ~BelowLimits(tex, EffectiveLimits(in.deviceLimits))
          /\ Len(createCalls) <= Len(fillCalls)
          /\ \A k \in DOMAIN createCalls : fillCalls[k].res = "DDS_LOADER_SUCCESS"
    /\ \A k \in DOMAIN fillCalls :
          (fillCalls[k].res # "DDS_LOADER_SUCCESS") =>
              (k = Len(fillCalls) /\ Len(createCalls) < k)

\* a load ran every stage: the first creation failed, the fallback enumerated and created again
C7_Witness ==
    /\ Returned /\ result = "DDS_LOADER_SUCCESS"
    /\ stages = <<"Enter", "ParseHeader", "ResolveFormat", "Enumerate", "Create",
                  "RetryEnumerate", "RetryCreate", "Finish">>
    /\ Len(createCalls) = 2 /\ Len(fillCalls) = 2

\* the dimensionality class the header states
HeaderClass ==
    IF SignalsDX10 THEN
        CASE in.d3d10ext.resourceDimension = 2 -> "1D"
          [] in.d3d10ext.resourceDimension = 3 ->
                IF (in.d3d10ext.miscFlag \div 4) % 2 = 1 THEN "Cube" ELSE "2D"
          [] in.d3d10ext.resourceDimension = 4 -> "3D"
          [] OTHER -> "none"
    ELSE IF (in.hdr.flags \div 8388608) % 2 = 1 THEN "3D"
    ELSE IF (in.hdr.caps2 \div 512) % 2 = 1 THEN "Cube"
    ELSE "2D"

\* the limit in force: the supplied one, or the built-in minimum
LimitInForce(name, minimum) ==
    IF in.deviceLimits.present THEN in.deviceLimits[name] ELSE minimum

\* the extents of the header exceed the limits of the class; layers is the number of array layers
ExceedsLimits(class, layersExceed) ==
    CASE class = "1D" ->
            layersExceed \/ in.hdr.width > LimitInForce("maxImageDimension1D", 4096)
      [] class = "2D" ->
            \/ layersExceed
            \/ in.hdr.width > LimitInForce("maxImageDimension2D", 4096)
            \/ in.hdr.height > LimitInForce("maxImageDimension2D", 4096)
      [] class = "Cube" ->
            \/ layersExceed
            \/ in.hdr.width > LimitInForce("maxImageDimensionCube", 4096)
            \/ in.hdr.height > LimitInForce("maxImageDimensionCube", 4096)
      [] class = "3D" ->
            \/ in.hdr.width > LimitInForce("maxImageDimension3D", 256)
            \/ in.hdr.height > LimitInForce("maxImageDimension3D", 256)
            \/ in.hdr.depth > LimitInForce("maxImageDimension3D", 256)
      [] OTHER -> FALSE

\* the array layers the header asks for exceed maxImageArrayLayers: six for every cube
HeaderLayersExceed ==
    LET layers == LimitInForce("maxImageArrayLayers", 256)
        arraySize == IF SignalsDX10 THEN in.d3d10ext.arraySize ELSE 1
    IN  IF HeaderClass = "Cube" THEN arraySize > layers \div 6 ELSE arraySize > layers

PassesEarlierChecks ==
    /\ in.hdr.mipMapCount <= 15
    /\ IF SignalsDX10 THEN
           /\ in.d3d10ext.arraySize # 0
           /\ BitsPerPixel(DXGIToVkFormat(in.d3d10ext.dxgiFormat)) # 0
           /\ in.d3d10ext.resourceDimension \in {2, 3, 4}
           /\ in.d3d10ext.resourceDimension = 2 =>
                 ((in.hdr.flags \div 2) % 2 = 0 \/ in.hdr.height = 1)
           /\ in.d3d10ext.resourceDimension = 4 =>
                 ((in.hdr.flags \div 8388608) % 2 = 1 /\ in.d3d10ext.arraySize = 1)
       ELSE
           /\ GetVkFormat(in.hdr.ddspf) # "VK_FORMAT_UNDEFINED"
           /\ HeaderClass = "Cube" => (in.hdr.caps2 \div 1024) % 64 = 63

\* the class the limits are taken from: a 2D image is checked as a cube when the caller's
\* createFlags hold VK_IMAGE_CREATE_CUBE_COMPATIBLE_BIT
CheckedClass ==
    IF HeaderClass = "2D" /\ "VK_IMAGE_CREATE_CUBE_COMPATIBLE_BIT" \in in.createFlags
    THEN "Cube" ELSE HeaderClass

\* the array layers as the code counts them exceed maxImageArrayLayers: arraySize, times 6
\* in 32-bit arithmetic for a DX10 cube
CountedLayersExceed ==
    LET layers == LimitInForce("maxImageArrayLayers", 256)
    IN  IF ~SignalsDX10 THEN (IF HeaderClass = "Cube" THEN 6 > layers ELSE 1 > layers)
        ELSE IF HeaderClass = "Cube" THEN MulSixUint32(in.d3d10ext.arraySize) > layers
        ELSE in.d3d10ext.arraySize > layers

C9_ZeroArraySizeIsInvalidData ==
    (Returned /\ Parsed /\ SignalsDX10 /\ in.d3d10ext.arraySize = 0) =>
        (result = "DDS_LOADER_INVALID_DATA" /\ fillCalls = <<>> /\ createCalls = <<>>)

\* arraySize 0 came with an unknown format, an unknown resource dimension and too many mips
C9_Witness ==
    /\ Returned /\ Parsed /\ SignalsDX10 /\ in.d3d10ext.arraySize = 0
    /\ in.d3d10ext.dxgiFormat = 0 /\ in.d3d10ext.resourceDimension = 0
    /\ in.hdr.mipMapCount > 15
    /\ result = "DDS_LOADER_INVALID_DATA"

\* a legacy header that is no volume and has the cubemap bit of caps2
LegacyCubemap == ~SignalsDX10 /\ HeaderClass = "Cube"

\* one of the six face bits of caps2 is missing
FaceMissing == (in.hdr.caps2 \div 1024) % 64 # 63

\* the second half of C10: a legacy cubemap that gets to the enumeration has six layers and
\* the cube-compatible flag
LegacyCubemapHasSixFaces ==
    (LegacyCubemap /\ fillCalls # <<>>) =>
        /\ tex.arraySize = 6
        /\ "VK_IMAGE_CREATE_CUBE_COMPATIBLE_BIT" \in tex.imageCreateFlags
        /\ \A k \in DOMAIN createCalls :
              /\ createCalls[k].info.arrayLayers = 6
              /\ "VK_IMAGE_CREATE_CUBE_COMPATIBLE_BIT" \in createCalls[k].info.flags

\* C10 as stated: a legacy cubemap with a face bit missing fails with
\* DDS_LOADER_UNSUPPORTED_LAYOUT, and a legacy cubemap that gets to the enumeration has
\* arraySize 6 and the cube-compatible flag
C10_MissingFaceIsUnsupportedLayout ==
    /\ (Returned /\ Parsed /\ LegacyCubemap /\ FaceMissing) =>
          result = "DDS_LOADER_UNSUPPORTED_LAYOUT"
    /\ LegacyCubemapHasSixFaces

\* C10, amended: a legacy cubemap whose pixel format GetVkFormat maps to a format and that has
\* a face bit missing fails with DDS_LOADER_UNSUPPORTED_LAYOUT, and a legacy cubemap that gets
\* to the enumeration has arraySize 6 and the cube-compatible flag
C10_MissingFaceOfMappedFormat ==
    /\ (Returned /\ Parsed /\ LegacyCubemap /\ FaceMissing
          /\ GetVkFormat(in.hdr.ddspf) # "VK_FORMAT_UNDEFINED") =>
          (result = "DDS_LOADER_UNSUPPORTED_LAYOUT" /\ fillCalls = <<>> /\ createCalls = <<>>)
    /\ LegacyCubemapHasSixFaces

\* a legacy cubemap with five of the six faces was turned down
C10_Witness ==
    /\ Returned /\ Parsed /\ LegacyCubemap
    /\ (in.hdr.caps2 \div 1024) % 64 \notin {0, 63}
    /\ GetVkFormat(in.hdr.ddspf) # "VK_FORMAT_UNDEFINED"
    /\ result = "DDS_LOADER_UNSUPPORTED_LAYOUT"

\* the format code the header carries, as the Format Mapper maps it
MappedFormat ==
    IF SignalsDX10 THEN DXGIToVkFormat(in.d3d10ext.dxgiFormat) ELSE GetVkFormat(in.hdr.ddspf)

\* CreateTextureFromDDS called the Format Mapper and got VK_FORMAT_UNDEFINED: the DX10 branch
\* calls it once arraySize is seen not to be 0, the legacy branch calls it first
MapperYieldsUndefined ==
    /\ Parsed /\ tex.err # "none"
    /\ SignalsDX10 => in.d3d10ext.arraySize # 0
    /\ MappedFormat = "VK_FORMAT_UNDEFINED"

\* C11: whenever DXGIToVkFormat (on the format code of a DX10 header) or GetVkFormat (on the
\* pixel format of a legacy header) returns VK_FORMAT_UNDEFINED to CreateTextureFromDDS, the load
\* fails with DDS_LOADER_UNSUPPORTED_FORMAT: FillInitData is not called and adds no descriptor,
\* the format stays undefined, no VkImageCreateInfo is filled in and vkCreateImage is not called
C11_UndefinedFormatFails ==
    MapperYieldsUndefined =>
        /\ tex.err = "DDS_LOADER_UNSUPPORTED_FORMAT"
        /\ tex.format = "VK_FORMAT_UNDEFINED"
        /\ pc = "done" /\ result = "DDS_LOADER_UNSUPPORTED_FORMAT"
        /\ fillCalls = <<>> /\ subresources = in.subresources0
        /\ outImageCreateInfo = "zero"
        /\ createCalls = <<>> /\ texture = "nullptr"

\* a DX10 header with a format code the mapper has no format for, and with a
\* resource dimension and a mip count that fail later checks, was turned down for its format
C11_Witness ==
    /\ Returned /\ MapperYieldsUndefined
    /\ SignalsDX10 /\ in.d3d10ext.dxgiFormat = 0 /\ in.d3d10ext.resourceDimension = 0
    /\ in.hdr.mipMapCount > 15
    /\ result = "DDS_LOADER_UNSUPPORTED_FORMAT"
    /\ createCalls = <<>>

\* the VkFormat enumerators of unsigned-integer colour formats
UnsignedIntegerFormats ==
    {"VK_FORMAT_R8_UINT", "VK_FORMAT_R8G8_UINT", "VK_FORMAT_R8G8B8_UINT", "VK_FORMAT_B8G8R8_UINT",
     "VK_FORMAT_R8G8B8A8_UINT", "VK_FORMAT_B8G8R8A8_UINT", "VK_FORMAT_A8B8G8R8_UINT_PACK32",
     "VK_FORMAT_A2R10G10B10_UINT_PACK32", "VK_FORMAT_A2B10G10R10_UINT_PACK32",
     "VK_FORMAT_R16_UINT", "VK_FORMAT_R16G16_UINT", "VK_FORMAT_R16G16B16_UINT",
     "VK_FORMAT_R16G16B16A16_UINT", "VK_FORMAT_R32_UINT", "VK_FORMAT_R32G32_UINT",
     "VK_FORMAT_R32G32B32_UINT", "VK_FORMAT_R32G32B32A32_UINT", "VK_FORMAT_R64_UINT",
     "VK_FORMAT_R64G64_UINT", "VK_FORMAT_R64G64B64_UINT", "VK_FORMAT_R64G64B64A64_UINT"}

\* the view the claim gives a typeless code: the UNORM block format for DXGI_FORMAT_BC1, BC2,
\* BC3, BC4, BC5 and BC7_TYPELESS, the unsigned-float block format for BC6H_TYPELESS, an
\* unsigned-integer format for every other one
TypelessViewAllowed(dxgiFormat, format) ==
    CASE dxgiFormat = 70 -> format = "VK_FORMAT_BC1_RGBA_UNORM_BLOCK"
      [] dxgiFormat = 73 -> format = "VK_FORMAT_BC2_UNORM_BLOCK"
      [] dxgiFormat = 76 -> format = "VK_FORMAT_BC3_UNORM_BLOCK"
      [] dxgiFormat = 79 -> format = "VK_FORMAT_BC4_UNORM_BLOCK"
      [] dxgiFormat = 82 -> format = "VK_FORMAT_BC5_UNORM_BLOCK"
      [] dxgiFormat = 97 -> format = "VK_FORMAT_BC7_UNORM_BLOCK"
      [] dxgiFormat = 94 -> format = "VK_FORMAT_BC6H_UFLOAT_BLOCK"
      [] OTHER -> format \in UnsignedIntegerFormats

\* the DX10 branch of CreateTextureFromDDS called DXGIToVkFormat and stored what it returned
MapperCalledOnDX10 == Parsed /\ tex.err # "none" /\ SignalsDX10 /\ in.d3d10ext.arraySize # 0

\* C12: for every format code IsTypelessFormat classifies as typeless, DXGIToVkFormat returns an
\* unsigned-integer format, but for the block-compressed typeless codes, which get their UNORM
\* block format (BC1, BC2, BC3, BC4, BC5, BC7) or the unsigned-float block format (BC6H)
C12_TypelessMapsToUnsignedInteger ==
    (MapperCalledOnDX10 /\ IsTypelessFormat(in.d3d10ext.dxgiFormat)) =>
        /\ tex.format = DXGIToVkFormat(in.d3d10ext.dxgiFormat)
        /\ TypelessViewAllowed(in.d3d10ext.dxgiFormat, tex.format)

\* the typeless codes DXGIToVkFormat maps as C12 says
RegularTypelessCodesMapped ==
    (MapperCalledOnDX10 /\ IsTypelessFormat(in.d3d10ext.dxgiFormat)
       /\ in.d3d10ext.dxgiFormat \notin {19, 21, 44, 46, 47, 90, 92}) =>
        TypelessViewAllowed(in.d3d10ext.dxgiFormat, tex.format)

\* the cap of the fallback: the 3D limit in force for a 3D image, the 2D limit for any other
FallbackCap ==
    IF tex.imgType = "VK_IMAGE_TYPE_3D" THEN LimitInForce("maxImageDimension3D", 256)
    ELSE LimitInForce("maxImageDimension2D", 4096)

\* C13: within one load vkCreateImage is called at most twice; the second call happens only
\* when the first call failed, the caller's maxsize was 0 and the mip count is above 1, and it
\* follows exactly one more FillInitData, run under the 2D (for a 3D image the 3D) dimension
\* limit; when the second call fails the load fails and nothing more is tried
C13_AtMostOneRetry ==
    /\ Len(createCalls) <= 2
    /\ Len(fillCalls) <= 2
    /\ Len(fillCalls) = 2 =>
          /\ in.maxsize = 0 /\ tex.mipCount > 1
          /\ fillCalls[1].maxsize = 0 /\ fillCalls[1].res = "DDS_LOADER_SUCCESS"
          /\ fillCalls[2].maxsize = FallbackCap
          /\ in.vkCreateImage => (createCalls # <<>> /\ createCalls[1].vkRes # "VK_SUCCESS")
          /\ SubSeq(stages, 4, 6) = <<"Enumerate", "Create", "RetryEnumerate">>
    /\ Len(createCalls) = 2 =>
          /\ Len(fillCalls) = 2 /\ fillCalls[2].res = "DDS_LOADER_SUCCESS"
          /\ SubSeq(stages, 4, 7) = <<"Enumerate", "Create", "RetryEnumerate", "RetryCreate">>
          /\ pc \in {"return", "done"}
    /\ (Returned /\ Len(createCalls) = 2 /\ createCalls[2].vkRes # "VK_SUCCESS") =>
          /\ Failed /\ texture = "nullptr"
          /\ Len(stages) = 8 /\ stages[8] = "Finish"

\* the creation of a volume with several mips failed twice: once uncapped, once under the
\* 3D limit of the device, and the load failed
C13_Witness ==
    /\ Returned /\ Failed
    /\ Len(createCalls) = 2 /\ Len(fillCalls) = 2
    /\ createCalls[1].vkRes # "VK_SUCCESS" /\ createCalls[2].vkRes # "VK_SUCCESS"
    /\ tex.imgType = "VK_IMAGE_TYPE_3D" /\ in.deviceLimits.present
    /\ in.deviceLimits.maxImageDimension3D # in.deviceLimits.maxImageDimension2D
    /\ fillCalls[2].maxsize = in.deviceLimits.maxImageDimension3D
    /\ in.maxsize = 0 /\ tex.mipCount > 1

\* CreateTextureResource has just returned into errCode
CreateReturned == stages # <<>> /\ stages[Len(stages)] \in {"Create", "RetryCreate"}

\* the calls of vkCreateImage before the stage that ran last
CallsBeforeLastStage ==
    IF stages[Len(stages)] = "RetryCreate" /\ in.vkCreateImage THEN 1 ELSE 0

\* C14: CreateTextureResource returns DDS_LOADER_SUCCESS for VK_SUCCESS,
\* DDS_LOADER_NO_HOST_MEMORY for VK_ERROR_OUT_OF_HOST_MEMORY, DDS_LOADER_NO_DEVICE_MEMORY for
\* VK_ERROR_OUT_OF_DEVICE_MEMORY and DDS_LOADER_FAIL for any other result of vkCreateImage;
\* with no vkCreateImage configured it returns DDS_LOADER_NO_FUNCTION and calls nothing
C14_CreateResultMapping ==
    CreateReturned =>
        IF in.vkCreateImage THEN
            /\ Len(createCalls) = CallsBeforeLastStage + 1
            /\ LET vkRes == createCalls[Len(createCalls)].vkRes
               IN  /\ vkRes = "VK_SUCCESS" => errCode = "DDS_LOADER_SUCCESS"
                   /\ vkRes = "VK_ERROR_OUT_OF_HOST_MEMORY" =>
                         errCode = "DDS_LOADER_NO_HOST_MEMORY"
                   /\ vkRes = "VK_ERROR_OUT_OF_DEVICE_MEMORY" =>
                         errCode = "DDS_LOADER_NO_DEVICE_MEMORY"
                   /\ vkRes \notin {"VK_SUCCESS", "VK_ERROR_OUT_OF_HOST_MEMORY",
                                    "VK_ERROR_OUT_OF_DEVICE_MEMORY"} =>
                         errCode = "DDS_LOADER_FAIL"
        ELSE
            /\ errCode = "DDS_LOADER_NO_FUNCTION"
            /\ createCalls = <<>>
            /\ texture = "nullptr"

\* vkCreateImage returned a result that is neither success nor out of memory
C14_Witness ==
    /\ CreateReturned /\ in.vkCreateImage
    /\ createCalls[Len(createCalls)].vkRes = "VK_ERROR_INITIALIZATION_FAILED"
    /\ errCode = "DDS_LOADER_FAIL"

\* the load ran with no vkCreateImage configured
NoFunctionReached ==
    CreateReturned /\ ~in.vkCreateImage /\ errCode = "DDS_LOADER_NO_FUNCTION"

\* the plane a descriptor belongs to, from its aspect mask
PlaneOf(r) ==
    CASE r.aspectMask = "VK_IMAGE_ASPECT_PLANE_1_BIT" -> 1
      [] r.aspectMask = "VK_IMAGE_ASPECT_PLANE_2_BIT" -> 2
      [] OTHER -> 0

\* descriptor a comes before descriptor b in the order (plane, array layer, mip level)
LexBefore(a, b) ==
    \/ PlaneOf(a) < PlaneOf(b)
    \/ PlaneOf(a) = PlaneOf(b) /\ a.arrayLayer < b.arrayLayer
    \/ PlaneOf(a) = PlaneOf(b) /\ a.arrayLayer = b.arrayLayer /\ a.mipLevel < b.mipLevel

\* C15: the descriptors FillInitData produces are strictly increasing in the lexicographic
\* order (plane, array layer, mip level), whatever the call returned
C15_DescriptorsInOrder ==
    \A k \in DOMAIN fillCalls :
        \A n \in DOMAIN fillCalls[k].initData :
            n > 1 => LexBefore(fillCalls[k].initData[n - 1], fillCalls[k].initData[n])

\* a walk over two planes, two array layers and several mips gave every descriptor, the first
\* of plane 0 and the last of mip mipCount - 1 of layer 1 of plane 1
C15_Witness ==
    \E k \in DOMAIN fillCalls :
        LET d == fillCalls[k].initData
        IN  /\ fillCalls[k].res = "DDS_LOADER_SUCCESS"
            /\ tex.numberOfPlanes = 2 /\ tex.arraySize = 2 /\ tex.mipCount > 1
            /\ Len(d) = 2 * 2 * tex.mipCount
            /\ PlaneOf(d[1]) = 0 /\ d[1].arrayLayer = 0 /\ d[1].mipLevel = 0
            /\ PlaneOf(d[Len(d)]) = 1 /\ d[Len(d)].arrayLayer = 1
            /\ d[Len(d)].mipLevel = tex.mipCount - 1

\* max(1, floor(x / 2))
Halved(x) == IF x \div 2 > 1 THEN x \div 2 ELSE 1

\* the extent of mip level i of a chain that starts at x
RECURSIVE ExtentAtLevel(_, _)
ExtentAtLevel(x, i) == IF i = 0 THEN x ELSE Halved(ExtentAtLevel(x, i - 1))

\* descriptors a and b belong to the same plane and array layer
SameChain(a, b) == a.aspectMask = b.aspectMask /\ a.arrayLayer = b.arrayLayer

\* C16: within one plane and array layer the extent walked at mip level i + 1 is
\* max(1, floor(extent at level i / 2)) in width, height and depth, from the full extent
\* FillInitData is given at level 0; consecutive descriptors of one plane and layer are of
\* consecutive levels and stand in this relation
C16_MipChainHalves ==
    \A k \in DOMAIN fillCalls :
        LET d == fillCalls[k].initData
        IN  \A n \in DOMAIN d :
                /\ d[n].width = ExtentAtLevel(tex.width, d[n].mipLevel)
                /\ d[n].height = ExtentAtLevel(tex.height, d[n].mipLevel)
                /\ d[n].depth = ExtentAtLevel(tex.depth, d[n].mipLevel)
                /\ (n > 1 /\ SameChain(d[n - 1], d[n])) =>
                      /\ d[n].mipLevel = d[n - 1].mipLevel + 1
                      /\ d[n].width = Halved(d[n - 1].width)
                      /\ d[n].height = Halved(d[n - 1].height)
                      /\ d[n].depth = Halved(d[n - 1].depth)

\* a chain went from 5 x 3 over 2 x 1 to 1 x 1: the halving rounds down and stops at 1
C16_Witness ==
    \E k \in DOMAIN fillCalls :
        LET d == fillCalls[k].initData
        IN  /\ fillCalls[k].res = "DDS_LOADER_SUCCESS"
            /\ Len(d) >= 3
            /\ in.hdr.width = 5 /\ in.hdr.height = 3
            /\ d[1].mipLevel = 0 /\ d[1].width = 5 /\ d[1].height = 3
            /\ SameChain(d[1], d[2]) /\ d[2].width = 2 /\ d[2].height = 1
            /\ SameChain(d[2], d[3]) /\ d[3].width = 1 /\ d[3].height = 1

\* a chain of a volume halved its depth as well
VolumeChainReached ==
    \E k \in DOMAIN fillCalls :
        LET d == fillCalls[k].initData
        IN  /\ fillCalls[k].res = "DDS_LOADER_SUCCESS" /\ Len(d) >= 2
            /\ d[1].depth = 4 /\ SameChain(d[1], d[2]) /\ d[2].depth = 2

\* the mip levels a walk under the cap skips: with several mips and a cap that is not 0, the
\* levels with a dimension above the cap
SkippedLevels(cap) ==
    {i \in 0 .. (tex.mipCount - 1) :
        /\ tex.mipCount > 1 /\ cap # 0
        /\ \/ ExtentAtLevel(tex.width, i) > cap
           \/ ExtentAtLevel(tex.height, i) > cap
           \/ ExtentAtLevel(tex.depth, i) > cap}

\* FillInitData walked every mip of every slice of every plane
FullWalk(call) == call.res \in {"DDS_LOADER_SUCCESS", "DDS_LOADER_FAIL"}

\* a skipped level is skipped for every slice and plane, a level that is not skipped is there
\* for every slice and plane
SkippedForEverySlice(call) ==
    /\ \A n \in DOMAIN call.initData : call.initData[n].mipLevel \notin SkippedLevels(call.maxsize)
    /\ Len(call.initData)
          = tex.numberOfPlanes * tex.arraySize
               * (tex.mipCount - Cardinality(SkippedLevels(call.maxsize)))

\* C17: after FillInitData the skip count is the number of distinct mip levels skipped under the
\* cap, each counted once however many array slices and planes there are, and a skipped level
\* is skipped for every slice
C17_SkipCountIsSkippedLevels ==
    \A k \in DOMAIN fillCalls :
        FullWalk(fillCalls[k]) =>
            /\ fillCalls[k].skipMip = Cardinality(SkippedLevels(fillCalls[k].maxsize))
            /\ SkippedForEverySlice(fillCalls[k])

\* what the code counts: every skipped level once for every plane, through the first slice
SkipCountedPerPlane ==
    \A k \in DOMAIN fillCalls :
        FullWalk(fillCalls[k]) =>
            /\ fillCalls[k].skipMip
                  = tex.numberOfPlanes * Cardinality(SkippedLevels(fillCalls[k].maxsize))
            /\ SkippedForEverySlice(fillCalls[k])

\* a walk of several slices of one plane skipped a level and counted it once
SkipCountedOnceReached ==
    \E k \in DOMAIN fillCalls :
        /\ fillCalls[k].res = "DDS_LOADER_SUCCESS"
        /\ tex.numberOfPlanes = 1 /\ tex.arraySize > 1
        /\ fillCalls[k].skipMip = 1 /\ Cardinality(SkippedLevels(fillCalls[k].maxsize)) = 1

\* a walk of two planes skipped one level and counted two
SkipCountedTwiceReached ==
    \E k \in DOMAIN fillCalls :
        /\ fillCalls[k].res = "DDS_LOADER_SUCCESS"
        /\ tex.numberOfPlanes = 2
        /\ fillCalls[k].skipMip = 2 /\ Cardinality(SkippedLevels(fillCalls[k].maxsize)) = 1

\* the extent FillInitData reported last equals the extent of descriptor r
ReportedExtentIs(r) ==
    fill.twidth = r.width /\ fill.theight = r.height /\ fill.tdepth = r.depth

\* the last FillInitData succeeded: its first descriptor is the first kept mip level
LastWalkSucceeded == fillCalls # <<>> /\ fill.res = "DDS_LOADER_SUCCESS"

\* C18: the extent FillInitData reports (twidth, theight, tdepth) is the extent of the first
\* kept mip level, the lowest level the cap did not skip; with no cap it is the full extent
\* FillInitData was given; and it is the extent of the VkImageCreateInfo of the creation
C18_EffectiveExtentIsFirstKeptMip ==
    /\ LastWalkSucceeded =>
          LET call == fillCalls[Len(fillCalls)]
              first == call.initData[1]
          IN  /\ ReportedExtentIs(first)
              /\ \A n \in DOMAIN call.initData : first.mipLevel <= call.initData[n].mipLevel
              /\ call.maxsize = 0 =>
                    (fill.twidth = tex.width /\ fill.theight = tex.height
                       /\ fill.tdepth = tex.depth)
    /\ (CreateReturned /\ createCalls # <<>>) =>
          LET info == createCalls[Len(createCalls)].info
          IN  info.width = fill.twidth /\ info.height = fill.theight
                 /\ info.depth = fill.tdepth

\* what the code does: the claim for every texture whose width is not 0 or that has one mip,
\* and the extent of the VkImageCreateInfo for all
EffectiveExtentOfNonzeroWidth ==
    /\ (LastWalkSucceeded /\ (tex.width # 0 \/ tex.mipCount = 1)) =>
          LET call == fillCalls[Len(fillCalls)]
              first == call.initData[1]
          IN  /\ ReportedExtentIs(first)
              /\ \A n \in DOMAIN call.initData : first.mipLevel <= call.initData[n].mipLevel
              /\ call.maxsize = 0 =>
                    (fill.twidth = tex.width /\ fill.theight = tex.height
                       /\ fill.tdepth = tex.depth)
    /\ (CreateReturned /\ createCalls # <<>>) =>
          LET info == createCalls[Len(createCalls)].info
          IN  info.width = fill.twidth /\ info.height = fill.theight
                 /\ info.depth = fill.tdepth

\* a capped walk skipped the first level and reported the extent of the second
EffectiveExtentUnderCapReached ==
    /\ LastWalkSucceeded /\ CreateReturned /\ createCalls # <<>>
    /\ fill.skipMip = 1 /\ tex.numberOfPlanes = 1
    /\ fillCalls[Len(fillCalls)].initData[1].mipLevel = 1
    /\ fill.twidth = Halved(tex.width) /\ fill.twidth < tex.width
    /\ createCalls[Len(createCalls)].info.width = fill.twidth

\* a texture of width 0 and several mips kept its first level and reported the second
ZeroWidthReportsSecondLevel ==
    /\ LastWalkSucceeded /\ tex.width = 0 /\ tex.mipCount > 1
    /\ fillCalls[Len(fillCalls)].initData[1].mipLevel = 0
    /\ fillCalls[Len(fillCalls)].initData[1].width = 0
    /\ fill.twidth = 1 /\ fill.theight = Halved(tex.height)

\* the bytes of mip level i of one slice in the layout of an aspect: the bytes GetSurfaceInfo
\* gives for the extent of the level, times its depth
LevelBytes(i, aspectPlane) ==
    GetSurfaceInfo(ExtentAtLevel(tex.width, i), ExtentAtLevel(tex.height, i), tex.format,
                   aspectPlane).numBytes * ExtentAtLevel(tex.depth, i)

\* the bytes of the mip levels below level n of one slice
RECURSIVE BytesBelowLevel(_, _)
BytesBelowLevel(n, aspectPlane) ==
    IF n = 0 THEN 0 ELSE BytesBelowLevel(n - 1, aspectPlane) + LevelBytes(n - 1, aspectPlane)

\* C19: the source cursor steps over the data of every mip level, kept or skipped: the offset
\* of a descriptor from bitData is the sum of the sizes (bytes of the layout times depth) of all
\* the subresources of its plane, kept and skipped, before it in the order (slice, mip)
C19_OffsetCountsSkippedData ==
    \A k \in DOMAIN fillCalls :
        \A n \in DOMAIN fillCalls[k].initData :
            LET r == fillCalls[k].initData[n]
            IN  /\ r.DataByteSize = LevelBytes(r.mipLevel, r.aspectMask)
                /\ r.PData = r.arrayLayer * BytesBelowLevel(tex.mipCount, r.aspectMask)
                               + BytesBelowLevel(r.mipLevel, r.aspectMask)

\* under a cap the first descriptor of the second slice lies behind the whole first slice and
\* the skipped first level of its own
C19_Witness ==
    \E k \in DOMAIN fillCalls :
        \E n \in DOMAIN fillCalls[k].initData :
            LET r == fillCalls[k].initData[n]
            IN  /\ fillCalls[k].res = "DDS_LOADER_SUCCESS"
                /\ fillCalls[k].skipMip > 0
                /\ r.arrayLayer = 1 /\ r.mipLevel = 1
                /\ LevelBytes(0, r.aspectMask) > 0
                /\ r.PData = BytesBelowLevel(tex.mipCount, r.aspectMask)
                               + LevelBytes(0, r.aspectMask)
                /\ r.PData + r.DataByteSize <= view.bitSize

\* every mip level exceeds the cap of the call
AllLevelsSkipped(call) == Cardinality(SkippedLevels(call.maxsize)) = tex.mipCount

\* the payload holds the data of every mip of every slice, so the walk runs to its end
PayloadComplete == ~HugeSlice /\ view.bitSize >= RequiredBytes(tex)

\* C20: when every mip level exceeded the cap and so no descriptor was kept, FillInitData
\* returns a failure, never DDS_LOADER_SUCCESS with an empty sequence (after the full walk the
\* failure is DDS_LOADER_FAIL), and the load fails with that result without a call of
\* vkCreateImage after it
C20_AllSkippedFails ==
    \A k \in DOMAIN fillCalls :
        /\ fillCalls[k].res = "DDS_LOADER_SUCCESS" => fillCalls[k].initData # <<>>
        /\ AllLevelsSkipped(fillCalls[k]) =>
              /\ fillCalls[k].initData = <<>>
              /\ fillCalls[k].res # "DDS_LOADER_SUCCESS"
              /\ PayloadComplete => fillCalls[k].res = "DDS_LOADER_FAIL"
              /\ k = Len(fillCalls) /\ Len(createCalls) < k
              /\ errCode = fillCalls[k].res
              /\ Returned =>
                    (result = fillCalls[k].res /\ subresources = <<>> /\ texture = "nullptr")

\* a texture of 64 x 64 was loaded under a cap of 1: every level was skipped and counted, the
\* walk ran to the end of the payload, the load failed and created nothing
C20_Witness ==
    /\ Returned /\ Len(fillCalls) = 1
    /\ in.maxsize = 1 /\ tex.width = 64 /\ tex.mipCount > 1 /\ tex.numberOfPlanes = 1
    /\ AllLevelsSkipped(fillCalls[1]) /\ PayloadComplete
    /\ fillCalls[1].skipMip = tex.mipCount
    /\ fillCalls[1].res = "DDS_LOADER_FAIL"
    /\ result = "DDS_LOADER_FAIL"
    /\ createCalls = <<>> /\ subresources = <<>>

\* every level was skipped over a payload that holds none of them
AllSkippedTruncatedReached ==
    /\ Returned /\ Len(fillCalls) = 1 /\ AllLevelsSkipped(fillCalls[1]) /\ ~PayloadComplete
    /\ result = "DDS_LOADER_UNEXPECTED_EOF"


\* === The Layout Calculator called on its own =============================
\* GetSurfaceInfo is a function of (width, height, fmt, aspectPlane) that writes through three
\* out-pointers.  LayoutSpec calls it once on each input of a bounded set: `in` holds the
\* arguments and the values the caller's three variables hold before the call, `result` the
\* returned code and the three variables after the call.
MaxLayoutDim == 13

\* the formats the switch of GetSurfaceInfo marks isBlockFormat (lines 1562-1706)
BlockFormats ==
    UNION {Block4x4Bytes8Formats, Block4x4Bytes16Formats, Block5x4Bytes16Formats,
           Block5x5Bytes16Formats, Block6x5Bytes16Formats, Block6x6Bytes16Formats,
           Block8x5Bytes16Formats, Block8x6Bytes16Formats, Block8x8Bytes16Formats,
           Block10x5Bytes16Formats, Block10x6Bytes16Formats, Block10x8Bytes16Formats,
           Block10x10Bytes16Formats, Block12x10Bytes16Formats, Block12x12Bytes16Formats,
           Block8x4Bytes8Formats}

\* formats of the other branches: packed, planar, plain, and two that BitsPerPixel does not know
OtherLayoutFormats ==
    {"VK_FORMAT_G8B8G8R8_422_UNORM", "VK_FORMAT_G8_B8R8_2PLANE_420_UNORM",
     "VK_FORMAT_G8_B8_R8_3PLANE_420_UNORM", "VK_FORMAT_R8G8B8A8_UNORM", "VK_FORMAT_R8_UNORM",
     "VK_FORMAT_UNDEFINED", "VK_FORMAT_MAX_ENUM"}

LayoutAspects ==
    {"VK_IMAGE_ASPECT_COLOR_BIT", "VK_IMAGE_ASPECT_PLANE_0_BIT", "VK_IMAGE_ASPECT_PLANE_1_BIT"}

LayoutCalls ==
    [width : 0..MaxLayoutDim, height : 0..MaxLayoutDim, fmt : BlockFormats,
     aspectPlane : {"VK_IMAGE_ASPECT_COLOR_BIT"},
     outNumBytes : {777}, outRowBytes : {77}, outNumRows : {7}]
    \cup
    [width : {0, 1, 5}, height : {0, 1, 3}, fmt : OtherLayoutFormats,
     aspectPlane : LayoutAspects,
     outNumBytes : {777}, outRowBytes : {77}, outNumRows : {7}]

LayoutInit ==
    /\ in \in LayoutCalls
    /\ pc = "layout"
    /\ result = [res |-> "none", outNumBytes |-> in.outNumBytes, outRowBytes |-> in.outRowBytes,
                 outNumRows |-> in.outNumRows]
    /\ texture = "stale"
    /\ alphaMode = "stale"
    /\ outImageCreateInfo = "stale"
    /\ subresources = <<>>
    /\ view = [NoView EXCEPT !.res = "none"]
    /\ tex = [NoTexture EXCEPT !.err = "none"]
    /\ maxsize = 0
    /\ fill = NoFill
    /\ errCode = "none"
    /\ createCalls = <<>>
    /\ fillCalls = <<>>
    /\ stages = <<>>

\* GetSurfaceInfo storing through its out-pointers before it tests the bits per pixel
SurfaceInfoOutputs_StoresOnFailure(before, info) ==
    [res |-> info.res, outNumBytes |-> info.numBytes, outRowBytes |-> info.rowBytes,
     outNumRows |-> info.numRows]

\* what a call of GetSurfaceInfo leaves in the caller's variables: the early return of line 2162
\* comes before the three stores of lines 2177-2188
SurfaceInfoOutputs(before, info) ==
    IF info.res = "DDS_LOADER_SUCCESS"
    THEN [res |-> info.res, outNumBytes |-> info.numBytes, outRowBytes |-> info.rowBytes,
          outNumRows |-> info.numRows]
    ELSE [before EXCEPT !.res = info.res]

\* one call of GetSurfaceInfo (lines 1542-2191)
CallGetSurfaceInfo ==
    /\ pc = "layout"
    /\ \E info \in {GetSurfaceInfo(in.width, in.height, in.fmt, in.aspectPlane)} :
           result' = SurfaceInfoOutputs(result, info)
    /\ pc' = "done"
    /\ UNCHANGED <<in, texture, alphaMode, outImageCreateInfo, subresources, view, tex, maxsize,
                   fill, errCode, createCalls, fillCalls, stages>>

LayoutNext == CallGetSurfaceInfo

LayoutSpec == LayoutInit /\ [][LayoutNext]_vars

\* GetSurfaceInfo returned, on a block-compressed format
BlockLayoutDone == pc = "done" /\ in.fmt \in BlockFormats

\* the N of "N bytes per block"
BytesPerBlockOf(fmt) == SurfaceFormatInfo(fmt).bytesPerBlock

\* C21 as stated: for block-compressed formats GetSurfaceInfo never returns a zero-sized layout;
\* a width or height of zero still yields one block: row stride >= bytesPerBlock, row count >= 1
\* and total bytes >= bytesPerBlock.
C21_BlockLayoutNeverZero ==
    BlockLayoutDone =>
        /\ result.outRowBytes >= BytesPerBlockOf(in.fmt)
        /\ result.outNumRows >= 1
        /\ result.outNumBytes >= BytesPerBlockOf(in.fmt)

\* C21, amended: for block-compressed formats a width above zero yields at least one block per
\* row (row stride >= bytesPerBlock) and a height above zero at least one row of blocks, while a
\* width of zero yields a row stride of 0 and a height of zero a row count of 0; the total is
\* at least bytesPerBlock when both are above zero and 0 otherwise.
C21_BlockLayoutZeroOnlyForZeroExtent ==
    BlockLayoutDone =>
        /\ result.res = "DDS_LOADER_SUCCESS"
        /\ IF in.width > 0 THEN result.outRowBytes >= BytesPerBlockOf(in.fmt)
                           ELSE result.outRowBytes = 0
        /\ IF in.height > 0 THEN result.outNumRows >= 1 ELSE result.outNumRows = 0
        /\ IF in.width > 0 /\ in.height > 0
           THEN result.outNumBytes >= BytesPerBlockOf(in.fmt)
           ELSE result.outNumBytes = 0

\* a block-compressed layout of width zero was computed, and one of a width below the block width
C21_Witness ==
    /\ BlockLayoutDone
    /\ in.width = 0 /\ in.height = 4
    /\ result.outRowBytes = 0 /\ result.outNumRows = 1 /\ result.outNumBytes = 0

SubBlockLayoutReached ==
    /\ BlockLayoutDone
    /\ in.width = 1 /\ in.height = 1
    /\ result.outNumBytes = BytesPerBlockOf(in.fmt)


\* the least q with q * b >= a
CeilDiv(a, b) == CHOOSE q \in 0..a : q * b >= a /\ (q = 0 \/ (q - 1) * b < a)

\* C22: for every block-compressed format with block size bw x bh and N bytes per block,
\* GetSurfaceInfo returns row stride = ceil(width / bw) * N, row count = ceil(height / bh) and
\* total = stride * rows; a width in 1..bw and a height in 1..bh give exactly one block
\* (stride N, one row, total N), which for BC1 (4x4, 8 bytes) covers 1x1 and 4x4.
C22_BlockLayoutIsCeiling ==
    BlockLayoutDone =>
        LET f == SurfaceFormatInfo(in.fmt)
        IN  /\ result.res = "DDS_LOADER_SUCCESS"
            /\ result.outRowBytes = CeilDiv(in.width, f.blockWidth) * f.bytesPerBlock
            /\ result.outNumRows = CeilDiv(in.height, f.blockHeight)
            /\ result.outNumBytes = result.outRowBytes * result.outNumRows
            /\ (in.width \in 1..f.blockWidth /\ in.height \in 1..f.blockHeight) =>
                   /\ result.outRowBytes = f.bytesPerBlock
                   /\ result.outNumRows = 1
                   /\ result.outNumBytes = f.bytesPerBlock
            /\ (in.fmt = "VK_FORMAT_BC1_RGB_UNORM_BLOCK" /\ in.width \in {1, 4}
                    /\ in.height = in.width) =>
                   result.outRowBytes = 8 /\ result.outNumRows = 1 /\ result.outNumBytes = 8

\* a layout of several blocks each way was computed for a format whose blocks are not square
C22_Witness ==
    /\ BlockLayoutDone
    /\ SurfaceFormatInfo(in.fmt).blockWidth = 5 /\ SurfaceFormatInfo(in.fmt).blockHeight = 4
    /\ in.width = 11 /\ in.height = 5
    /\ result.outRowBytes = 48 /\ result.outNumRows = 2 /\ result.outNumBytes = 96

\* GetSurfaceInfo returned, on a format of the last branch that BitsPerPixel does not know
UnknownBitsPerPixelDone ==
    /\ pc = "done"
    /\ SurfaceFormatInfo(in.fmt).kind = "none"
    /\ BitsPerPixel(in.fmt) = 0

\* the caller's three variables are as they were before the call
OutputsUntouched ==
    /\ result.outNumBytes = in.outNumBytes
    /\ result.outRowBytes = in.outRowBytes
    /\ result.outNumRows = in.outNumRows

\* C23 as stated: when the format is neither block-compressed, packed nor planar and its
\* bits-per-pixel lookup returns zero, GetSurfaceInfo fails with the unsupported-format error
\* and writes no output values.
C23_ZeroBitsPerPixelIsUnsupportedFormat ==
    UnknownBitsPerPixelDone =>
        result.res = "DDS_LOADER_UNSUPPORTED_FORMAT" /\ OutputsUntouched

\* C23, amended: in that case GetSurfaceInfo fails with DDS_LOADER_INVALID_ARG and writes no
\* output values.
C23_ZeroBitsPerPixelIsInvalidArg ==
    UnknownBitsPerPixelDone =>
        result.res = "DDS_LOADER_INVALID_ARG" /\ OutputsUntouched

\* GetSurfaceInfo failed on a format without bits per pixel, for an extent that is not zero
C23_Witness ==
    /\ UnknownBitsPerPixelDone
    /\ in.fmt = "VK_FORMAT_UNDEFINED" /\ in.width = 5 /\ in.height = 3
    /\ result.res = "DDS_LOADER_INVALID_ARG"
    /\ result.outNumBytes = 777


\* === The legacy mapper called on its own =================================
\* the ISBITMASK tests of GetVkFormat as a table, in the order of the code: family flag, bit
\* count, the four masks and the format returned (lines 2198-2342)
LegacyEntry(flags, bitCount, r, g, b, a, format) ==
    [flags |-> flags, bitCount |-> bitCount, r |-> r, g |-> g, b |-> b, a |-> a,
     format |-> format]

LegacyTable ==
    << LegacyEntry(DDS_RGB, 32, Mask(0, 255), Mask(0, 65280), Mask(255, 0), Mask(65280, 0),
                   "VK_FORMAT_R8G8B8A8_UNORM"),
       LegacyEntry(DDS_RGB, 32, Mask(255, 0), Mask(0, 65280), Mask(0, 255), Mask(65280, 0),
                   "VK_FORMAT_B8G8R8A8_UNORM"),
       LegacyEntry(DDS_RGB, 32, Mask(255, 0), Mask(0, 65280), Mask(0, 255), Mask(0, 0),
                   "VK_FORMAT_UNDEFINED"),
       LegacyEntry(DDS_RGB, 32, Mask(16368, 0), Mask(15, 64512), Mask(0, 1023), Mask(49152, 0),
                   "VK_FORMAT_A2B10G10R10_UNORM_PACK32"),
       LegacyEntry(DDS_RGB, 32, Mask(0, 1023), Mask(15, 64512), Mask(16368, 0), Mask(49152, 0),
                   "VK_FORMAT_A2R10G10B10_UNORM_PACK32"),
       LegacyEntry(DDS_RGB, 32, Mask(0, 65535), Mask(65535, 0), Mask(0, 0), Mask(0, 0),
                   "VK_FORMAT_R16G16_UNORM"),
       LegacyEntry(DDS_RGB, 32, Mask(65535, 65535), Mask(0, 0), Mask(0, 0), Mask(0, 0),
                   "VK_FORMAT_R32_SFLOAT"),
       LegacyEntry(DDS_RGB, 24, Mask(255, 0), Mask(0, 65280), Mask(0, 255), Mask(0, 0),
                   "VK_FORMAT_R8G8B8_UNORM"),
       LegacyEntry(DDS_RGB, 16, Mask(0, 31744), Mask(0, 992), Mask(0, 31), Mask(0, 32768),
                   "VK_FORMAT_A1R5G5B5_UNORM_PACK16"),
       LegacyEntry(DDS_RGB, 16, Mask(0, 63488), Mask(0, 2016), Mask(0, 31), Mask(0, 0),
                   "VK_FORMAT_R5G6B5_UNORM_PACK16"),
       LegacyEntry(DDS_RGB, 16, Mask(0, 3840), Mask(0, 240), Mask(0, 15), Mask(0, 61440),
                   "VK_FORMAT_A4R4G4B4_UNORM_PACK16_EXT"),
       LegacyEntry(DDS_LUMINANCE, 8, Mask(0, 255), Mask(0, 0), Mask(0, 0), Mask(0, 0),
                   "VK_FORMAT_R8_UNORM"),
       LegacyEntry(DDS_LUMINANCE, 8, Mask(0, 15), Mask(0, 0), Mask(0, 0), Mask(0, 240),
                   "VK_FORMAT_R4G4_UNORM_PACK8"),
       LegacyEntry(DDS_LUMINANCE, 8, Mask(0, 255), Mask(0, 0), Mask(0, 0), Mask(0, 65280),
                   "VK_FORMAT_R8G8_UNORM"),
       LegacyEntry(DDS_LUMINANCE, 16, Mask(0, 65535), Mask(0, 0), Mask(0, 0), Mask(0, 0),
                   "VK_FORMAT_R16_UNORM"),
       LegacyEntry(DDS_LUMINANCE, 16, Mask(0, 255), Mask(0, 0), Mask(0, 0), Mask(0, 65280),
                   "VK_FORMAT_R8G8_UNORM"),
       LegacyEntry(DDS_BUMPDUDV, 16, Mask(0, 255), Mask(0, 65280), Mask(0, 0), Mask(0, 0),
                   "VK_FORMAT_R8G8_SNORM"),
       LegacyEntry(DDS_BUMPDUDV, 32, Mask(0, 255), Mask(0, 65280), Mask(255, 0), Mask(65280, 0),
                   "VK_FORMAT_R8G8B8A8_SNORM"),
       LegacyEntry(DDS_BUMPDUDV, 32, Mask(0, 65535), Mask(65535, 0), Mask(0, 0), Mask(0, 0),
                   "VK_FORMAT_R16G16_SNORM"),
       LegacyEntry(DDS_BUMPDUDV, 32, Mask(16368, 0), Mask(15, 64512), Mask(0, 1023),
                   Mask(49152, 0), "VK_FORMAT_A2B10G10R10_SNORM_PACK32") >>

\* a 16-bit half of a mask with bit k inverted
FlipBit16(x, k) == IF (x \div (2 ^ k)) % 2 = 1 THEN x - 2 ^ k ELSE x + 2 ^ k

\* a 32-bit mask with bit k inverted
FlipBit(m, k) ==
    IF k < 16 THEN Mask(m[1], FlipBit16(m[2], k)) ELSE Mask(FlipBit16(m[1], k - 16), m[2])

\* the DDS_PIXELFORMAT that carries the family flag, the bit count and the masks of entry e
PixelFormatOf(e) == PixelFormat(e.flags, 0, e.bitCount, e.r, e.g, e.b, e.a)

\* the pixel formats the mapper is called on: every entry as it stands, every entry with one bit
\* of one mask inverted, and every entry's masks under every other entry's flag and bit count
MapperCalls ==
    LET entries == {LegacyTable[i] : i \in DOMAIN LegacyTable}
    IN  {[ddpf |-> PixelFormatOf(e)] : e \in entries}
        \cup {[ddpf |-> [PixelFormatOf(e) EXCEPT !.RBitMask = FlipBit(e.r, k)]] :
                  e \in entries, k \in 0..31}
        \cup {[ddpf |-> [PixelFormatOf(e) EXCEPT !.GBitMask = FlipBit(e.g, k)]] :
                  e \in entries, k \in 0..31}
        \cup {[ddpf |-> [PixelFormatOf(e) EXCEPT !.BBitMask = FlipBit(e.b, k)]] :
                  e \in entries, k \in 0..31}
        \cup {[ddpf |-> [PixelFormatOf(e) EXCEPT !.ABitMask = FlipBit(e.a, k)]] :
                  e \in entries, k \in 0..31}
        \cup {[ddpf |-> [PixelFormatOf(e) EXCEPT !.flags = o.flags,
                                                 !.RGBBitCount = o.bitCount]] :
                  e \in entries, o \in entries}

MapperInit ==
    /\ in \in MapperCalls
    /\ pc = "map"
    /\ result = "none"
    /\ texture = "stale"
    /\ alphaMode = "stale"
    /\ outImageCreateInfo = "stale"
    /\ subresources = <<>>
    /\ view = [NoView EXCEPT !.res = "none"]
    /\ tex = [NoTexture EXCEPT !.err = "none"]
    /\ maxsize = 0
    /\ fill = NoFill
    /\ errCode = "none"
    /\ createCalls = <<>>
    /\ fillCalls = <<>>
    /\ stages = <<>>

\* one call of GetVkFormat (lines 2196-2460)
CallGetVkFormat ==
    /\ pc = "map"
    /\ \E format \in {GetVkFormat(in.ddpf)} : result' = format
    /\ pc' = "done"
    /\ UNCHANGED <<in, texture, alphaMode, outImageCreateInfo, subresources, view, tex, maxsize,
                   fill, errCode, createCalls, fillCalls, stages>>

MapperNext == CallGetVkFormat

MapperSpec == MapperInit /\ [][MapperNext]_vars

\* the positions of the table whose family flag, bit count and four masks are those of ddpf
MatchingEntries(ddpf) ==
    {i \in DOMAIN LegacyTable :
        /\ LegacyTable[i].flags = ddpf.flags
        /\ LegacyTable[i].bitCount = ddpf.RGBBitCount
        /\ LegacyTable[i].r = ddpf.RBitMask
        /\ LegacyTable[i].g = ddpf.GBitMask
        /\ LegacyTable[i].b = ddpf.BBitMask
        /\ LegacyTable[i].a = ddpf.ABitMask}

\* C25: GetVkFormat is an exact-match lookup: a pixel format with exactly the family flag, bit
\* count and four masks of a table entry maps to that entry's format; at most one entry of a
\* bit-count bucket matches a pixel format; a pixel format that differs in some mask bit from
\* every entry of its bucket maps to VK_FORMAT_UNDEFINED.
C25_LegacyLookupIsExactMatch ==
    (pc = "done") =>
        /\ Cardinality(MatchingEntries(in.ddpf)) <= 1
        /\ \A i \in MatchingEntries(in.ddpf) : result = LegacyTable[i].format
        /\ MatchingEntries(in.ddpf) = {} => result = "VK_FORMAT_UNDEFINED"

\* the mapper refused B8G8R8A8 with one bit of the alpha mask inverted
C25_Witness ==
    /\ pc = "done"
    /\ in.ddpf.flags = DDS_RGB /\ in.ddpf.RGBBitCount = 32
    /\ ISBITMASK(in.ddpf, Mask(255, 0), Mask(0, 65280), Mask(0, 255), Mask(65280, 1))
    /\ result = "VK_FORMAT_UNDEFINED"

\* the mapper found an entry that is not the first of its bucket
LaterEntryMatched ==
    /\ pc = "done"
    /\ MatchingEntries(in.ddpf) = {5}
    /\ result = "VK_FORMAT_A2R10G10B10_UNORM_PACK32"


\* every descriptor FillInitData has emitted so far, over all its calls
EmittedDescriptors ==
    UNION {{fillCalls[k].initData[n] : n \in DOMAIN fillCalls[k].initData} : k \in DOMAIN fillCalls}

\* the creation requests made so far
CreationRequests == {createCalls[k].info : k \in DOMAIN createCalls}

ExtentAtLeastOne(x) == x.width >= 1 /\ x.height >= 1 /\ x.depth >= 1

\* C24: in every descriptor emitted by FillInitData and in the extent of every image-creation
\* request, width, height and depth are each at least 1, for any header the parser accepts
\* (a header width, height or volume depth of 0 included).
C24_ExtentsAtLeastOne ==
    /\ \A r \in EmittedDescriptors : ExtentAtLeastOne(r)
    /\ \A info \in CreationRequests : ExtentAtLeastOne(info)

\* the same for the headers whose width, height and depth are above zero: this holds
ExtentsOfNonzeroHeader ==
    (tex.err = "DDS_LOADER_SUCCESS" /\ tex.width >= 1 /\ tex.height >= 1 /\ tex.depth >= 1) =>
        C24_ExtentsAtLeastOne

\* a header of width 0 got a descriptor of width 0, and a request of width 0
ZeroWidthDescriptorReached ==
    /\ in.hdr.width = 0
    /\ \E r \in EmittedDescriptors : r.width = 0 /\ r.mipLevel = 0

ZeroWidthRequestReached ==
    /\ in.hdr.width = 0
    /\ \E info \in CreationRequests : info.width = 0

ZeroDepthRequestReached == \E info \in CreationRequests : info.depth = 0

ZeroHeightRequestReached == \E info \in CreationRequests : info.height = 0


\* the load returned DDS_LOADER_SUCCESS
Succeeded == pc = "done" /\ result = "DDS_LOADER_SUCCESS"

\* a < b for an index a and a uint32_t b that the model holds as the int32_t of the same bits
BelowUint32(a, b) == b < 0 \/ a < b

\* every returned descriptor names a mip level and an array layer of the image requested
DescriptorsInsideImage ==
    \A n \in DOMAIN subresources :
        /\ BelowUint32(subresources[n].mipLevel, outImageCreateInfo.mipLevels)
        /\ BelowUint32(subresources[n].arrayLayer, outImageCreateInfo.arrayLayers)

\* C26: on every successful load each returned descriptor targets a subresource that exists in
\* the created image: its mip level is below the mipLevels of the creation request and its
\* array layer below the request's arrayLayers, also when the cap skipped leading mip levels.
C26_DescriptorsTargetExistingSubresources == Succeeded => DescriptorsInsideImage

\* the same for the loads that skipped no level and reserved no mips: this holds
DescriptorsInsideImageWithoutSkip ==
    (Succeeded /\ fill.skipMip = 0 /\ BitAnd(in.loadFlags, DDS_LOADER_MIP_RESERVE) = 0) =>
        DescriptorsInsideImage

\* a successful load under a cap returned a descriptor of a mip level the image does not have
MipLevelOutsideImageReached ==
    /\ Succeeded
    /\ fill.skipMip = 1
    /\ outImageCreateInfo.mipLevels = 2
    /\ \E n \in DOMAIN subresources : subresources[n].mipLevel = 2

\* a successful load of several layers without a cap
LayersInsideImageReached ==
    /\ Succeeded
    /\ fill.skipMip = 0
    /\ \E n \in DOMAIN subresources : subresources[n].arrayLayer = 1


\* C27: the mipLevels of every image-creation request lies between 1 and 15: the subtraction
\* of the skip count from the mip count (or, with DDS_LOADER_MIP_RESERVE, from
\* min(15, CountMips(width, height))) never underflows, whatever the header extent, mip count,
\* cap, plane count and load flags that reach resource creation.
C27_MipLevelsBetween1And15 ==
    \A info \in CreationRequests : info.mipLevels \in 1..maxDirect3DMips

\* the same for single-plane formats loaded without DDS_LOADER_MIP_RESERVE: this holds
MipLevelsOfPlainLoads ==
    (tex.numberOfPlanes = 1 /\ BitAnd(in.loadFlags, DDS_LOADER_MIP_RESERVE) = 0) =>
        C27_MipLevelsBetween1And15

\* a request of no mip level at all: DDS_LOADER_MIP_RESERVE on a header of width or height 0
ZeroMipLevelsReached ==
    /\ tex.numberOfPlanes = 1
    /\ BitAnd(in.loadFlags, DDS_LOADER_MIP_RESERVE) # 0
    /\ \E info \in CreationRequests : info.mipLevels = 0

\* a request whose mipLevels wrapped below zero: a two-plane format under a cap
WrappedMipLevelsReached ==
    /\ tex.numberOfPlanes = 2
    /\ \E info \in CreationRequests : info.mipLevels < 0

\* a request under a cap with the skip count subtracted and one level left
CappedRequestReached ==
    /\ tex.numberOfPlanes = 1
    /\ fill.skipMip = 2
    /\ \E info \in CreationRequests : info.mipLevels = 1


\* a request of no mip level for a header whose extent is above zero
ZeroMipLevelsOfNonzeroExtentReached ==
    /\ tex.numberOfPlanes = 1
    /\ tex.width >= 1 /\ tex.height >= 1 /\ tex.depth >= 1
    /\ \E info \in CreationRequests : info.mipLevels <= 0


\* the byte ranges [PData, PData + DataByteSize) of two descriptors have no byte in common
DisjointRanges(a, b) ==
    a.PData + a.DataByteSize <= b.PData \/ b.PData + b.DataByteSize <= a.PData

\* the descriptor sequences of the successful enumerations so far
SuccessfulEnumerations ==
    {fillCalls[k].initData : k \in {x \in DOMAIN fillCalls :
                                       fillCalls[x].res = "DDS_LOADER_SUCCESS"}}

\* C28: on successful enumeration the byte ranges of distinct descriptors of nonzero size are
\* pairwise disjoint within the payload, descriptors of different planes of a multi-planar
\* format included.
C28_DescriptorRangesDisjoint ==
    \A d \in SuccessfulEnumerations :
        \A m, n \in DOMAIN d :
            (m # n /\ d[m].DataByteSize > 0 /\ d[n].DataByteSize > 0) =>
                DisjointRanges(d[m], d[n])

\* the same for the descriptors of one plane: this holds
RangesOfOnePlaneDisjoint ==
    \A d \in SuccessfulEnumerations :
        \A m, n \in DOMAIN d :
            (m # n /\ d[m].DataByteSize > 0 /\ d[n].DataByteSize > 0
                 /\ d[m].aspectMask = d[n].aspectMask) =>
                DisjointRanges(d[m], d[n])

\* two planes of one enumeration start at the same byte
PlanesOverlapReached ==
    \E d \in SuccessfulEnumerations :
        \E m, n \in DOMAIN d :
            /\ d[m].aspectMask = "VK_IMAGE_ASPECT_PLANE_0_BIT"
            /\ d[n].aspectMask = "VK_IMAGE_ASPECT_PLANE_1_BIT"
            /\ d[m].PData = 0 /\ d[n].PData = 0
            /\ d[m].DataByteSize > 0 /\ d[n].DataByteSize > 0

\* one plane of several slices and mips was laid out
OnePlaneSeveralRangesReached ==
    \E d \in SuccessfulEnumerations :
        /\ Len(d) >= 4
        /\ \A n \in DOMAIN d : d[n].aspectMask = "VK_IMAGE_ASPECT_COLOR_BIT"
        /\ \A n \in DOMAIN d : d[n].DataByteSize > 0


\* a DX10 2D header with the cube flag that got as far as the limit check
CubeHeaderChecked ==
    Returned /\ Parsed /\ SignalsDX10 /\ HeaderClass = "Cube" /\ PassesEarlierChecks

\* 6 * arraySize of the header exceeds maxImageArrayLayers, in unbounded arithmetic
SixTimesArraySizeExceeds ==
    in.d3d10ext.arraySize > LimitInForce("maxImageArrayLayers", 256) \div 6

\* n is exactly 6 times the arraySize of the header
IsSixTimesArraySize(n) == n % 6 = 0 /\ n \div 6 = in.d3d10ext.arraySize

\* the layer count CreateTextureFromDDS goes on with is 6 times the header's arraySize, and a
\* header whose 6 * arraySize exceeds maxImageArrayLayers returns DDS_LOADER_BELOW_LIMITS
CubeLayersExact ==
    /\ SixTimesArraySizeExceeds => result = "DDS_LOADER_BELOW_LIMITS"
    /\ tex.err = "DDS_LOADER_SUCCESS" => IsSixTimesArraySize(tex.arraySize)
    /\ \A info \in CreationRequests : IsSixTimesArraySize(info.arrayLayers)

\* C29: for a DX10 2D header with the cube flag the layer count of the limit check, the
\* enumeration and the creation request is exactly 6 times the header's arraySize, with no
\* 32-bit wrap-around: every such header with 6 * arraySize above maxImageArrayLayers returns
\* DDS_LOADER_BELOW_LIMITS.
C29_CubeLayersAreSixTimesArraySize == CubeHeaderChecked => CubeLayersExact

\* the same for the headers whose 6 * arraySize fits 32 bits: this holds
CubeLayersBelowWrap ==
    (CubeHeaderChecked /\ in.d3d10ext.arraySize <= 715827882) => CubeLayersExact

\* a cube header of 715827883 cubes went on as one of 2 layers
WrappedCubeLayersReached ==
    /\ CubeHeaderChecked
    /\ in.d3d10ext.arraySize = 715827883
    /\ tex.err = "DDS_LOADER_SUCCESS"
    /\ tex.arraySize = 2

\* a cube header of 3 cubes was refused under the small layer limit, one of 2 cubes was loaded
CubeLayersRefusedReached ==
    /\ CubeHeaderChecked
    /\ in.d3d10ext.arraySize = 3
    /\ LimitInForce("maxImageArrayLayers", 256) = SmallMaxLayers
    /\ result = "DDS_LOADER_BELOW_LIMITS"

CubeLayersLoadedReached ==
    /\ CubeHeaderChecked
    /\ in.d3d10ext.arraySize = 2
    /\ \E info \in CreationRequests : info.arrayLayers = 12


\* the fallback ran on a 2D image that is not a cube, or on a 3D image, without
\* DDS_LOADER_MIP_RESERVE
PlainRetryDone ==
    /\ Len(fillCalls) = 2
    /\ BitAnd(in.loadFlags, DDS_LOADER_MIP_RESERVE) = 0
    /\ \/ tex.imgType = "VK_IMAGE_TYPE_3D"
       \/ /\ tex.imgType = "VK_IMAGE_TYPE_2D"
          /\ "VK_IMAGE_CREATE_CUBE_COMPATIBLE_BIT" \notin tex.imageCreateFlags

\* two creation requests of the same extent, mip count and layer count
SameImage(a, b) ==
    /\ a.width = b.width /\ a.height = b.height /\ a.depth = b.depth
    /\ a.mipLevels = b.mipLevels
    /\ a.arrayLayers = b.arrayLayers

\* C30: for 2D non-cube images and 3D images loaded without DDS_LOADER_MIP_RESERVE the fallback
\* changes nothing: the extent was validated against the device limit the retry takes as its
\* cap, so the second enumeration skips no mip and yields the same descriptors, and the second
\* creation request has the extent, mip count and layer count of the first.
C30_RetryChangesNothing ==
    PlainRetryDone =>
        /\ fillCalls[2].res = "DDS_LOADER_SUCCESS"
        /\ fillCalls[2].skipMip = 0
        /\ fillCalls[2].initData = fillCalls[1].initData
        /\ Len(createCalls) = 2 => SameImage(createCalls[1].info, createCalls[2].info)

\* the fallback ran to its second request on a 2D image whose extent takes several mips
C30_Witness ==
    /\ PlainRetryDone
    /\ tex.imgType = "VK_IMAGE_TYPE_2D"
    /\ tex.width = 5 /\ tex.mipCount = MaxMips
    /\ Len(createCalls) = 2
    /\ createCalls[2].info.mipLevels = MaxMips
    /\ Len(fillCalls[2].initData) >= MaxMips

\* the same on a volume
VolumeRetryReached ==
    /\ PlainRetryDone
    /\ tex.imgType = "VK_IMAGE_TYPE_3D"
    /\ tex.depth = 4
    /\ Len(createCalls) = 2

\* the fallback on a 1D image, which is outside the claim, does skip: its width was checked
\* against maxImageDimension1D and the cap is maxImageDimension2D
Retry1DSkipsReached ==
    /\ Len(fillCalls) = 2
    /\ tex.imgType = "VK_IMAGE_TYPE_1D"
    /\ fillCalls[2].skipMip > 0
====
